---- MODULE Spec2Model ----
(***************************************************************************)
(* Model of the realtime transcription core of OpenSuperWhisper:           *)
(*   RealtimeRecorder  (OpenSuperWhisper/realtime_recorder.py)             *)
(*   ChunkProcessor    (src/OpenSuperWhisper/chunk_processor.py)           *)
(* Times are whole seconds, sub-second durations are tenths of a second,   *)
(* sample amplitudes are thousandths of full scale, characters are code    *)
(* points.                                                                 *)
(***************************************************************************)
EXTENDS Integers, Sequences, FiniteSets, TLC

\* ------------------------------------------------------------------------
\* Bounds of the model
\* ------------------------------------------------------------------------
sample_rate == 40      \* RealtimeRecorder(sample_rate): samples per second
MaxBlocks == 3         \* blocks handed to add_audio_data in one run
MaxClock == 240        \* latest clock reading, seconds
MaxStops == 2          \* stop_recording calls per session
MaxStarts == 2         \* start_recording calls in one run
MaxResults == 3        \* chunk ids 0 .. MaxResults - 1 in a results list
MaxChunks == 2         \* chunk ids 0 .. MaxChunks - 1 handed to the processor
MaxTasks == 3          \* tasks submitted to the executor in one run
max_workers == 2       \* ChunkProcessor(max_workers)
MaxCallers == 2        \* threads inside schedule_retry at one time
MaxQueue == 2          \* entries of the retry queue, waiting callers included
MaxWait == 120         \* latest clock reading of the host's retry polls, seconds

BlockLens == {60}      \* samples per submitted block
Amps == {0, 20}        \* amplitude of a block's samples (0.000 and 0.020)
Advances == {50, 60}   \* seconds the clock may jump between calls

\* ------------------------------------------------------------------------
\* Recorder constants (RealtimeRecorder.__init__)
\* ------------------------------------------------------------------------
MIN_CHUNK_DURATION == 60
SILENCE_CHECK_START == 90
PRIORITY_SPLIT_TIME == 110
MAX_CHUNK_DURATION == 120
SILENCE_THRESHOLD == 10       \* 0.01 of full scale, in thousandths
MIN_SILENCE_DURATION == 15    \* 1.5 s, in tenths of a second
SHORT_SILENCE_DURATION == 5   \* 0.5 s, in tenths of a second

\* int(2.5 * sample_rate)
silence_buffer_size == (25 * sample_rate) \div 10

VARIABLES
    \* RealtimeRecorder fields
    is_recording, chunk_id, chunk_start_time, recording_start_time,
    current_chunk, recent_audio,
    \* the clock read by time.time()
    now,
    \* observation of the recorder's calls
    submitted,    \* samples accepted by add_audio_data in this session
    emitted,      \* chunks returned in this session, in emission order
    lastAdd,      \* what the latest add_audio_data saw and returned
    nBlocks, nStops, nStarts,
    \* the latest combine_results call: its argument and what it returned
    cmb_in, cmb_out, cmb_called,
    \* ChunkProcessor fields
    format_enabled, retry_manager, cancel_flag, chunk_results,
    processing_chunks, chunks_deleted,
    objs,         \* the ChunkResult objects, in order of creation
    tasks,        \* api_futures: the submitted tasks with their progress
    \* observation of the processor's calls
    rejected,     \* chunk ids for which process_chunk returned None
    retryHandles, \* per chunk id, the retry_chunk calls that returned a handle
    cancelAllCalled,
    \* RetryManager fields
    retry_queue, retry_counts, is_active,
    sched,        \* schedule_retry calls that passed should_retry and wait for the lock
    \* observation of the RetryManager's calls
    rm_last,      \* the latest finished call
    should_run,   \* answers of the latest should_retry calls with equal arguments
    \* CancelHandler field
    is_cancelling,
    \* observation of the CancelHandler's calls
    pending,      \* the choice request_cancel returned that is not executed yet
    ch_last       \* the latest finished call

recVars == <<is_recording, chunk_id, chunk_start_time, recording_start_time,
             current_chunk, recent_audio, now, submitted, emitted, lastAdd,
             nBlocks, nStops, nStarts>>

cmbVars == <<cmb_in, cmb_out, cmb_called>>

procVars == <<format_enabled, retry_manager, cancel_flag, chunk_results,
              processing_chunks, chunks_deleted, objs, tasks, rejected,
              retryHandles, cancelAllCalled>>

rmVars == <<retry_queue, retry_counts, is_active, sched, rm_last, should_run>>

chVars == <<is_cancelling, pending, ch_last>>

vars == <<recVars, cmbVars, procVars, rmVars, chVars>>

\* ------------------------------------------------------------------------
\* Python helpers
\* ------------------------------------------------------------------------
Min(a, b) == IF a <= b THEN a ELSE b
Max(a, b) == IF a >= b THEN a ELSE b

\* s[a:b] for 0 <= a, 0 <= b
PySlice(s, a, b) == SubSeq(s, Min(a, Len(s)) + 1, Min(b, Len(s)))

\* s[-n:] for n >= 0 (s[-0:] is the whole of s)
PyLast(s, n) == IF n = 0 \/ n >= Len(s) THEN s ELSE SubSeq(s, Len(s) - n + 1, Len(s))

RECURSIVE SumSq(_)
SumSq(s) == IF s = <<>> THEN 0 ELSE Head(s).v * Head(s).v + SumSq(Tail(s))

RECURSIVE Flatten(_)
Flatten(ss) ==
    IF ss = <<>> THEN <<>>
    ELSE IF Len(ss) = 1 THEN ss[1]
    ELSE LET h == Len(ss) \div 2
         IN Flatten(SubSeq(ss, 1, h)) \o Flatten(SubSeq(ss, h + 1, Len(ss)))

\* np.sqrt(np.mean(window ** 2)) < threshold, for a non-empty window
RmsBelow(window, threshold) == SumSq(window) < threshold * threshold * Len(window)

\* ------------------------------------------------------------------------
\* RealtimeRecorder
\* ------------------------------------------------------------------------
\* calculate_overlap_duration(language), tenths of a second
calculate_overlap_duration(language) ==
    IF language = "ja" THEN 8 ELSE IF language = "en" THEN 5 ELSE 6

\* int(duration * sample_rate) for a duration given in tenths of a second
SamplesOf(tenths) == (tenths * sample_rate) \div 10

\* detect_silence(duration) on the ring buffer ra
detect_silence(ra, duration) ==
    IF ra = <<>> THEN FALSE
    ELSE LET required_samples == SamplesOf(duration) IN
         IF Len(ra) < required_samples THEN FALSE
         ELSE RmsBelow(PyLast(ra, required_samples), SILENCE_THRESHOLD)

\* check_chunk_boundary without the hard cap at MAX_CHUNK_DURATION
check_chunk_boundary_NoCap(start, ra, current_time) ==
    LET chunk_duration == current_time - start IN
    IF chunk_duration < MIN_CHUNK_DURATION THEN FALSE
    ELSE IF chunk_duration >= SILENCE_CHECK_START
            /\ detect_silence(ra, MIN_SILENCE_DURATION + calculate_overlap_duration("ja"))
         THEN TRUE
    ELSE IF chunk_duration >= PRIORITY_SPLIT_TIME
            /\ detect_silence(ra, SHORT_SILENCE_DURATION)
         THEN TRUE
    ELSE FALSE

\* check_chunk_boundary that looks up the overlap of an unlisted language
check_chunk_boundary_DefaultOverlap(start, ra, current_time) ==
    LET chunk_duration == current_time - start IN
    IF chunk_duration < MIN_CHUNK_DURATION THEN FALSE
    ELSE IF chunk_duration >= MAX_CHUNK_DURATION THEN TRUE
    ELSE IF chunk_duration >= SILENCE_CHECK_START
            /\ detect_silence(ra, MIN_SILENCE_DURATION + calculate_overlap_duration("default"))
         THEN TRUE
    ELSE IF chunk_duration >= PRIORITY_SPLIT_TIME
            /\ detect_silence(ra, SHORT_SILENCE_DURATION)
         THEN TRUE
    ELSE FALSE

\* check_chunk_boundary with the long silence test from MIN_CHUNK_DURATION on
check_chunk_boundary_SilenceFromMin(start, ra, current_time) ==
    LET chunk_duration == current_time - start IN
    IF chunk_duration < MIN_CHUNK_DURATION THEN FALSE
    ELSE IF chunk_duration >= MAX_CHUNK_DURATION THEN TRUE
    ELSE IF chunk_duration >= MIN_CHUNK_DURATION
            /\ detect_silence(ra, MIN_SILENCE_DURATION + calculate_overlap_duration("ja"))
         THEN TRUE
    ELSE IF chunk_duration >= PRIORITY_SPLIT_TIME
            /\ detect_silence(ra, SHORT_SILENCE_DURATION)
         THEN TRUE
    ELSE FALSE

\* check_chunk_boundary(current_time), reading chunk_start_time and the ring
check_chunk_boundary(start, ra, current_time) ==
    LET chunk_duration == current_time - start IN
    IF chunk_duration < MIN_CHUNK_DURATION THEN FALSE
    ELSE IF chunk_duration >= MAX_CHUNK_DURATION THEN TRUE
    ELSE IF chunk_duration >= SILENCE_CHECK_START
            /\ detect_silence(ra, MIN_SILENCE_DURATION + calculate_overlap_duration("ja"))
         THEN TRUE
    ELSE IF chunk_duration >= PRIORITY_SPLIT_TIME
            /\ detect_silence(ra, SHORT_SILENCE_DURATION)
         THEN TRUE
    ELSE FALSE

\* _find_silence_window(audio_data, window_size, threshold)
RECURSIVE FindSilenceFrom(_, _, _, _)
FindSilenceFrom(a, window_size, threshold, i) ==
    IF i >= Len(a) - window_size THEN -1
    ELSE IF RmsBelow(PySlice(a, i, i + window_size), threshold) THEN i
    ELSE FindSilenceFrom(a, window_size, threshold, i + 1)

_find_silence_window(a, window_size, threshold) ==
    IF Len(a) < window_size THEN -1
    ELSE FindSilenceFrom(a, window_size, threshold, 0)

\* _find_minimum_amplitude(audio_data): the loop keeps the first minimum
RECURSIVE MinAmpFrom(_, _, _, _, _, _)
MinAmpFrom(a, window_size, i, haveMin, min_sq, min_pos) ==
    IF i >= Len(a) - window_size THEN min_pos
    ELSE LET sq == SumSq(PySlice(a, i, i + window_size))
             better == (~haveMin) \/ sq < min_sq
         IN MinAmpFrom(a, window_size, i + (window_size \div 2), TRUE,
                       IF better THEN sq ELSE min_sq,
                       IF better THEN i + (window_size \div 2) ELSE min_pos)

_find_minimum_amplitude(a) ==
    LET window_size == (5 * sample_rate) \div 100 IN
    IF Len(a) < window_size THEN Len(a) \div 2
    ELSE MinAmpFrom(a, window_size, 0, FALSE, 0, 0)

\* _find_zero_crossing(audio_data); a[k] of the code is a[k + 1] here
RECURSIVE ZeroCrossFrom(_, _, _, _)
ZeroCrossFrom(a, center, search_radius, offset) ==
    IF offset >= search_radius THEN center
    ELSE IF center + offset < Len(a) - 1
            /\ a[center + offset + 1].v <= 0 /\ a[center + offset + 2].v > 0
         THEN center + offset
    ELSE IF center - offset > 0
            /\ a[center - offset].v <= 0 /\ a[center - offset + 1].v > 0
         THEN center - offset
    ELSE ZeroCrossFrom(a, center, search_radius, offset + 1)

_find_zero_crossing(a) ==
    ZeroCrossFrom(a, Len(a) \div 2, sample_rate \div 10, 0)

\* _find_optimal_split_point below its first test
SearchSplitPoint(audio_data) ==
    LET n == Len(audio_data)
        \* audio_duration >= MAX_CHUNK_DURATION - 1
        target_samples == IF n >= (MAX_CHUNK_DURATION - 1) * sample_rate
                          THEN n ELSE 2 * sample_rate
        search_window == (5 * sample_rate) \div 10
        start_search == Max(0, target_samples - search_window)
        end_search == Min(n, target_samples + search_window)
        region == PySlice(audio_data, start_search, end_search)
        long_silence_samples == (15 * sample_rate) \div 10
        short_silence_samples == (5 * sample_rate) \div 10
        long_pos == _find_silence_window(region, long_silence_samples, SILENCE_THRESHOLD)
        short_pos == _find_silence_window(region, short_silence_samples, SILENCE_THRESHOLD)
        min_amp_pos == _find_minimum_amplitude(region)
        zero_cross_pos == _find_zero_crossing(region)
    IN IF n <= target_samples THEN n
       ELSE IF long_pos >= 0 THEN start_search + long_pos + (long_silence_samples \div 2)
       ELSE IF short_pos >= 0 THEN start_search + short_pos + (short_silence_samples \div 2)
       ELSE IF min_amp_pos >= 0 THEN start_search + min_amp_pos
       ELSE IF zero_cross_pos >= 0 THEN start_search + zero_cross_pos
       ELSE target_samples

\* the split point without the shortcut for chunks of 90 s and more
_find_optimal_split_point_NoShortcut(audio_data, chunk_duration) ==
    SearchSplitPoint(audio_data)

\* _find_optimal_split_point(audio_data, chunk_duration)
_find_optimal_split_point(audio_data, chunk_duration) ==
    IF chunk_duration # 0 /\ chunk_duration >= SILENCE_CHECK_START
    THEN Len(audio_data)
    ELSE SearchSplitPoint(audio_data)

\* create_chunk_with_overlap(audio_data, start_idx, end_idx):
\* chunk is the returned chunk, next the seed of the next chunk (or "None")
create_chunk_with_overlap(audio_data, start_idx, end_idx) ==
    LET overlap_samples == SamplesOf(calculate_overlap_duration("ja")) IN
    IF end_idx + overlap_samples <= Len(audio_data)
    THEN [chunk |-> PySlice(audio_data, start_idx, end_idx + overlap_samples),
          hasNext |-> TRUE,
          next |-> PySlice(audio_data, Max(start_idx, end_idx - overlap_samples),
                           end_idx + overlap_samples)]
    ELSE [chunk |-> PySlice(audio_data, start_idx, end_idx),
          hasNext |-> FALSE,
          next |-> <<>>]

\* _combine_chunk_data()
_combine_chunk_data(cc) == Flatten(cc)

\* deque(maxlen).extend
DequeExtend(ra, block) == PyLast(ra \o block, silence_buffer_size)

\* a block of len samples of amplitude amp, numbered from first
MakeBlock(first, len, amp) == [i \in 1..len |-> [n |-> first + i - 1, v |-> amp]]

NoAdd == [called |-> FALSE, recording |-> FALSE, d |-> 0, returned |-> FALSE]

InitRec ==
    /\ is_recording = FALSE
    /\ chunk_id = 0
    /\ chunk_start_time = 0
    /\ recording_start_time = 0
    /\ current_chunk = <<>>
    /\ recent_audio = <<>>
    /\ now = 0
    /\ submitted = <<>>
    /\ emitted = <<>>
    /\ lastAdd = NoAdd
    /\ nBlocks = 0
    /\ nStops = 0
    /\ nStarts = 0

\* a ring buffer of total samples: loud ones followed by tail silent ones
Ring(total, tail) ==
    MakeBlock(1, total - tail, 1000) \o MakeBlock(total - tail + 1, tail, 0)

\* the silent stretches the boundary tests ask for, in samples: none, 0.5 s,
\* 1.5 s plus the overlap of an unlisted language, 1.5 s plus that of "ja"
TailLens ==
    {0, SamplesOf(SHORT_SILENCE_DURATION),
     SamplesOf(MIN_SILENCE_DURATION + calculate_overlap_duration("default")),
     SamplesOf(MIN_SILENCE_DURATION + calculate_overlap_duration("ja"))}

\* ring lengths: a full ring, one a sample short of the long test, and one
\* of 0.5 s
RingLens ==
    {silence_buffer_size,
     SamplesOf(MIN_SILENCE_DURATION + calculate_overlap_duration("ja")) - 1,
     SamplesOf(SHORT_SILENCE_DURATION)}

Rings == {Ring(p[1], p[2]) : p \in {q \in RingLens \X TailLens : q[2] <= q[1]}}

\* elapsed chunk durations at and just below each threshold, and past the cap
Durations ==
    {MIN_CHUNK_DURATION - 1, MIN_CHUNK_DURATION,
     SILENCE_CHECK_START - 1, SILENCE_CHECK_START,
     PRIORITY_SPLIT_TIME - 1, PRIORITY_SPLIT_TIME,
     MAX_CHUNK_DURATION - 1, MAX_CHUNK_DURATION, MAX_CHUNK_DURATION + 1}

\* a recording whose chunk began at time 0, at some elapsed duration and with
\* some content of the ring
InitRecBoundary ==
    /\ is_recording = TRUE
    /\ chunk_id = 0
    /\ chunk_start_time = 0
    /\ recording_start_time = 0
    /\ current_chunk = <<>>
    /\ recent_audio \in Rings
    /\ now \in Durations
    /\ submitted = <<>>
    /\ emitted = <<>>
    /\ lastAdd = NoAdd
    /\ nBlocks = 0
    /\ nStops = 0
    /\ nStarts = 1

\* check_chunk_boundary(current_time)
CheckChunkBoundary ==
    /\ ~lastAdd.called
    /\ lastAdd' = [called |-> TRUE, recording |-> TRUE,
                   d |-> now - chunk_start_time,
                   returned |-> check_chunk_boundary(chunk_start_time, recent_audio, now)]
    /\ UNCHANGED <<is_recording, chunk_id, chunk_start_time, recording_start_time,
                   current_chunk, recent_audio, now, submitted, emitted,
                   nBlocks, nStops, nStarts>>
    /\ UNCHANGED <<cmbVars, procVars, rmVars, chVars>>

\* in-progress buffers of two blocks, the first of 1 to 2 s, the second of
\* 0.5 to 2 s, each loud or silent
FinalizeBuffers ==
    {<<MakeBlock(1, a, x), MakeBlock(a + 1, b, y)>> :
        a \in {sample_rate, (3 * sample_rate) \div 2, 2 * sample_rate},
        b \in {sample_rate \div 2, sample_rate, 2 * sample_rate},
        x \in Amps, y \in Amps}

\* elapsed chunk durations below and from SILENCE_CHECK_START on
FinalizeDurations ==
    {MIN_CHUNK_DURATION \div 2, SILENCE_CHECK_START - 1, SILENCE_CHECK_START,
     MAX_CHUNK_DURATION}

\* a recording whose chunk began at time 0, with some in-progress buffer, at
\* some elapsed duration
InitRecFinalize ==
    /\ is_recording = TRUE
    /\ chunk_id = 0
    /\ chunk_start_time = 0
    /\ recording_start_time = 0
    /\ current_chunk \in FinalizeBuffers
    /\ recent_audio = <<>>
    /\ now \in FinalizeDurations
    /\ submitted = _combine_chunk_data(current_chunk)
    /\ emitted = <<>>
    /\ lastAdd = NoAdd
    /\ nBlocks = 2
    /\ nStops = 0
    /\ nStarts = 1

\* _finalize_current_chunk(current_time)
FinalizeCurrentChunk ==
    /\ emitted = <<>>
    /\ LET audio_data == _combine_chunk_data(current_chunk)
           chunk_duration == now - chunk_start_time
           split_point == _find_optimal_split_point(audio_data, chunk_duration)
           r == create_chunk_with_overlap(audio_data, 0, split_point)
       IN /\ chunk_id' = chunk_id + 1
          /\ chunk_start_time' = now
          /\ current_chunk' = IF r.hasNext THEN <<r.next>> ELSE <<>>
          /\ emitted' = Append(emitted,
                          [id |-> chunk_id, data |-> r.chunk,
                           d |-> chunk_duration, final |-> FALSE,
                           ov |-> IF r.hasNext
                                  THEN Len(r.chunk) - split_point ELSE 0])
    /\ UNCHANGED <<is_recording, recording_start_time, recent_audio, now,
                   submitted, lastAdd, nBlocks, nStops, nStarts>>
    /\ UNCHANGED <<cmbVars, procVars, rmVars, chVars>>

\* time passes between two calls
Tick ==
    /\ \E dt \in Advances :
          /\ now + dt <= MaxClock
          /\ now' = now + dt
    /\ UNCHANGED <<is_recording, chunk_id, chunk_start_time, recording_start_time,
                   current_chunk, recent_audio, submitted, emitted, lastAdd,
                   nBlocks, nStops, nStarts>>
    /\ UNCHANGED <<cmbVars, procVars, rmVars, chVars>>

\* start_recording()
StartRecording ==
    /\ nStarts < MaxStarts
    /\ is_recording' = TRUE
    /\ recording_start_time' = now
    /\ chunk_start_time' = now
    /\ chunk_id' = 0
    /\ current_chunk' = <<>>
    /\ submitted' = <<>>
    /\ emitted' = <<>>
    /\ lastAdd' = NoAdd
    /\ nStops' = 0
    /\ nStarts' = nStarts + 1
    /\ UNCHANGED <<recent_audio, now, nBlocks>>
    /\ UNCHANGED <<cmbVars, procVars, rmVars, chVars>>

\* stop_recording that keeps back a remainder shorter than MIN_CHUNK_DURATION
StopRecording_MinDuration ==
    /\ nStops < MaxStops
    /\ is_recording' = FALSE
    /\ emitted' = IF current_chunk # <<>>
                     /\ now - chunk_start_time >= MIN_CHUNK_DURATION
                  THEN Append(emitted, [id |-> chunk_id,
                                        data |-> _combine_chunk_data(current_chunk),
                                        d |-> now - chunk_start_time,
                                        final |-> TRUE,
                                        ov |-> 0])
                  ELSE emitted
    /\ nStops' = nStops + 1
    /\ UNCHANGED <<chunk_id, chunk_start_time, recording_start_time, current_chunk,
                   recent_audio, now, submitted, lastAdd, nBlocks, nStarts>>
    /\ UNCHANGED <<cmbVars, procVars, rmVars, chVars>>

\* stop_recording()
StopRecording ==
    /\ nStops < MaxStops
    /\ is_recording' = FALSE
    /\ emitted' = IF current_chunk # <<>>
                  THEN Append(emitted, [id |-> chunk_id,
                                        data |-> _combine_chunk_data(current_chunk),
                                        d |-> now - chunk_start_time,
                                        final |-> TRUE,
                                        ov |-> 0])
                  ELSE emitted
    /\ nStops' = nStops + 1
    /\ UNCHANGED <<chunk_id, chunk_start_time, recording_start_time, current_chunk,
                   recent_audio, now, submitted, lastAdd, nBlocks, nStarts>>
    /\ UNCHANGED <<cmbVars, procVars, rmVars, chVars>>

\* add_audio_data that buffers the block without looking at is_recording
AddAudioDataIdle_Buffers ==
    /\ ~is_recording
    /\ nBlocks < MaxBlocks
    /\ \E len \in BlockLens, amp \in Amps :
         LET audio_data == MakeBlock(Len(submitted) + 1, len, amp)
         IN /\ current_chunk' = Append(current_chunk, audio_data)
            /\ recent_audio' = DequeExtend(recent_audio, audio_data)
    /\ nBlocks' = nBlocks + 1
    /\ lastAdd' = [called |-> TRUE, recording |-> FALSE, d |-> 0, returned |-> FALSE]
    /\ UNCHANGED <<is_recording, chunk_id, chunk_start_time, recording_start_time,
                   now, submitted, emitted, nStops, nStarts>>
    /\ UNCHANGED <<cmbVars, procVars, rmVars, chVars>>

\* add_audio_data(audio_data) while not recording
AddAudioDataIdle ==
    /\ ~is_recording
    /\ nBlocks < MaxBlocks
    /\ nBlocks' = nBlocks + 1
    /\ lastAdd' = [called |-> TRUE, recording |-> FALSE, d |-> 0, returned |-> FALSE]
    /\ UNCHANGED <<is_recording, chunk_id, chunk_start_time, recording_start_time,
                   current_chunk, recent_audio, now, submitted, emitted,
                   nStops, nStarts>>
    /\ UNCHANGED <<cmbVars, procVars, rmVars, chVars>>

\* add_audio_data(audio_data) while recording, _finalize_current_chunk included
AddAudioData ==
    /\ is_recording
    /\ nBlocks < MaxBlocks
    /\ \E len \in BlockLens, amp \in Amps :
         LET audio_data == MakeBlock(Len(submitted) + 1, len, amp)
             cc == Append(current_chunk, audio_data)
             ra == DequeExtend(recent_audio, audio_data)
             current_time == now
             chunk_duration == current_time - chunk_start_time
         IN
         /\ recent_audio' = ra
         /\ submitted' = submitted \o audio_data
         /\ IF check_chunk_boundary(chunk_start_time, ra, current_time)
            THEN LET all == _combine_chunk_data(cc)
                     split_point == _find_optimal_split_point(all, chunk_duration)
                     r == create_chunk_with_overlap(all, 0, split_point)
                 IN /\ chunk_id' = chunk_id + 1
                    /\ chunk_start_time' = current_time
                    /\ current_chunk' = IF r.hasNext THEN <<r.next>> ELSE <<>>
                    /\ emitted' = Append(emitted,
                                    [id |-> chunk_id, data |-> r.chunk,
                                     d |-> chunk_duration, final |-> FALSE,
                                     ov |-> IF r.hasNext
                                            THEN Len(r.chunk) - split_point ELSE 0])
                    /\ lastAdd' = [called |-> TRUE, recording |-> TRUE,
                                   d |-> chunk_duration, returned |-> TRUE]
            ELSE /\ current_chunk' = cc
                 /\ lastAdd' = [called |-> TRUE, recording |-> TRUE,
                                d |-> chunk_duration, returned |-> FALSE]
                 /\ UNCHANGED <<chunk_id, chunk_start_time, emitted>>
    /\ nBlocks' = nBlocks + 1
    /\ UNCHANGED <<is_recording, recording_start_time, now, nStops, nStarts>>
    /\ UNCHANGED <<cmbVars, procVars, rmVars, chVars>>

\* test_chunk_creation: seconds of audio generated
TestSeconds == 150

\* the levels a generated block of one second may have, in thousandths:
\* 0.3 * sin(...) has RMS 0.212; 0.01 * randn(...) has an RMS that falls on
\* either side of SILENCE_THRESHOLD from one draw to the next. A block that
\* has left the ring before the first silence test (elapsed duration of
\* SILENCE_CHECK_START), or that belongs to a later chunk, which the test
\* ends before MIN_CHUNK_DURATION, cannot change a decision; its level is
\* fixed to keep the runs few.
TestLevels(second) ==
    IF second % 10 < 7 THEN {212}
    ELSE IF second >= SILENCE_CHECK_START - 3 /\ chunk_id = 0 THEN {9, 10}
    ELSE {9}

\* recorder.start_recording() at simulated time 0
InitRecTest ==
    /\ is_recording = TRUE
    /\ chunk_id = 0
    /\ chunk_start_time = 0
    /\ recording_start_time = 0
    /\ current_chunk = <<>>
    /\ recent_audio = <<>>
    /\ now = 0
    /\ submitted = <<>>
    /\ emitted = <<>>
    /\ lastAdd = NoAdd
    /\ nBlocks = 0
    /\ nStops = 0
    /\ nStarts = 1

\* one pass of the test's loop: the clock is set to the start time plus the
\* second's number and one second of audio goes to add_audio_data
TestAddSecond ==
    /\ is_recording
    /\ nBlocks < TestSeconds
    /\ \E amp \in TestLevels(nBlocks) :
         LET simulated_time == recording_start_time + nBlocks
             audio_data == MakeBlock(Len(submitted) + 1, sample_rate, amp)
             cc == Append(current_chunk, audio_data)
             ra == DequeExtend(recent_audio, audio_data)
             chunk_duration == simulated_time - chunk_start_time
         IN
         /\ now' = simulated_time
         /\ recent_audio' = ra
         /\ submitted' = submitted \o audio_data
         /\ IF check_chunk_boundary(chunk_start_time, ra, simulated_time)
            THEN LET all == _combine_chunk_data(cc)
                     split_point == _find_optimal_split_point(all, chunk_duration)
                     r == create_chunk_with_overlap(all, 0, split_point)
                 IN /\ chunk_id' = chunk_id + 1
                    /\ chunk_start_time' = simulated_time
                    /\ current_chunk' = IF r.hasNext THEN <<r.next>> ELSE <<>>
                    /\ emitted' = Append(emitted,
                                    [id |-> chunk_id, data |-> r.chunk,
                                     d |-> chunk_duration, final |-> FALSE,
                                     ov |-> IF r.hasNext
                                            THEN Len(r.chunk) - split_point ELSE 0])
                    /\ lastAdd' = [called |-> TRUE, recording |-> TRUE,
                                   d |-> chunk_duration, returned |-> TRUE]
            ELSE /\ current_chunk' = cc
                 /\ lastAdd' = [called |-> TRUE, recording |-> TRUE,
                                d |-> chunk_duration, returned |-> FALSE]
                 /\ UNCHANGED <<chunk_id, chunk_start_time, emitted>>
    /\ nBlocks' = nBlocks + 1
    /\ UNCHANGED <<is_recording, recording_start_time, nStops, nStarts>>
    /\ UNCHANGED <<cmbVars, procVars, rmVars, chVars>>

\* the test's recorder.stop_recording() after the loop
TestStop ==
    /\ is_recording
    /\ nBlocks = TestSeconds
    /\ StopRecording

\* ------------------------------------------------------------------------
\* ChunkProcessor: combining results
\* ------------------------------------------------------------------------
\* ChunkStatus
PENDING == "pending"
PROCESSING == "processing"
COMPLETED == "completed"
ERROR == "error"
CANCELLED == "cancelled"

\* Texts are sequences of code points; None is <<>> wherever the code only
\* tests a text for truth.
NEWLINE == 10
\* "[エラー: 取得失敗]"
error_text == <<91, 12456, 12521, 12540, 58, 32, 21462, 24471, 22833, 25943, 93>>

\* for i in range(window_size, 5, -1): if text1[-i:] == text2[:i]
RECURSIVE OverlapFrom(_, _, _)
OverlapFrom(text1, text2, i) ==
    IF i <= 5 THEN 0
    ELSE IF PyLast(text1, i) = PySlice(text2, 0, i) THEN i
    ELSE OverlapFrom(text1, text2, i - 1)

\* remove_duplicate_text whose search starts one below the window size
remove_duplicate_text_WindowExclusive(text1, text2) ==
    IF text1 = <<>> \/ text2 = <<>> THEN text1 \o text2
    ELSE LET window_size == Min(Min(Len(text1) \div 10, Len(text2) \div 10), 50)
             i == OverlapFrom(text1, text2, window_size - 1)
         IN text1 \o PySlice(text2, i, Len(text2))

\* remove_duplicate_text(text1, text2)
remove_duplicate_text(text1, text2) ==
    IF text1 = <<>> \/ text2 = <<>> THEN text1 \o text2
    ELSE LET window_size == Min(Min(Len(text1) \div 10, Len(text2) \div 10), 50)
             i == OverlapFrom(text1, text2, window_size)
         IN text1 \o PySlice(text2, i, Len(text2))

\* texts[-1] = combined, or texts.append(text)
MergeText(texts, text, i) ==
    IF text = <<>> THEN texts
    ELSE IF i > 0 /\ texts # <<>>
    THEN [texts EXCEPT ![Len(texts)] = remove_duplicate_text(texts[Len(texts)], text)]
    ELSE Append(texts, text)

\* "\n".join(texts)
RECURSIVE Join(_)
Join(texts) ==
    IF texts = <<>> THEN <<>>
    ELSE IF Len(texts) = 1 THEN texts[1]
    ELSE texts[1] \o <<NEWLINE>> \o Join(Tail(texts))

\* the loop of combine_results from index i (0-based) on
RECURSIVE CombineFrom(_, _, _, _)
CombineFrom(results, i, raw_texts, formatted_texts) ==
    IF i >= Len(results)
    THEN [raw |-> Join(raw_texts), formatted |-> Join(formatted_texts)]
    ELSE LET result == results[i + 1] IN
         IF result.status = COMPLETED
         THEN CombineFrom(results, i + 1,
                          MergeText(raw_texts, result.raw_text, i),
                          MergeText(formatted_texts, result.formatted_text, i))
         ELSE IF result.status = ERROR
         THEN CombineFrom(results, i + 1,
                          Append(raw_texts, error_text),
                          Append(formatted_texts, error_text))
         ELSE CombineFrom(results, i + 1, raw_texts, formatted_texts)

\* combine_results(results) for a given list
combine_results(results) == CombineFrom(results, 0, <<>>, <<>>)

\* sorted by chunk_id (get_results_in_order)
RECURSIVE SortById(_)
SortById(results) ==
    IF results = <<>> THEN <<>>
    ELSE LET k == CHOOSE k \in 1..Len(results) :
                    \A j \in 1..Len(results) :
                        results[k].chunk_id < results[j].chunk_id
                        \/ (results[k].chunk_id = results[j].chunk_id /\ k <= j)
             rest == [j \in 1..(Len(results) - 1) |->
                         IF j < k THEN results[j] ELSE results[j + 1]]
         IN <<results[k]>> \o SortById(rest)

ChunkResult(id, status, raw, formatted) ==
    [chunk_id |-> id, status |-> status, raw_text |-> raw,
     formatted_text |-> formatted, error |-> "", retry_count |-> 0]

\* short results: the texts of chunk k are one letter each
ShortResults(id) ==
    {ChunkResult(id, st, <<97 + id>>, <<65 + id>>) : st \in {COMPLETED, ERROR, PENDING}}

\* lists with pairwise distinct chunk ids, in any order
DistinctIdLists ==
    UNION {{ids \in [1..n -> 0..(MaxResults - 1)] :
               \A a, b \in 1..n : a # b => ids[a] # ids[b]} : n \in 1..MaxResults}

ShortInputs ==
    UNION {{rs \in [1..Len(ids) -> UNION {ShortResults(k) : k \in 0..(MaxResults - 1)}] :
               \A a \in 1..Len(ids) : rs[a].chunk_id = ids[a]} : ids \in DistinctIdLists}

\* two adjacent chunks whose texts meet in a 20-character overlap
OverlapLen == 20
TextLens == {20, 60, 199, 200, 250, 600}
Fill(n, c) == [i \in 1..n |-> c]
Shared == [i \in 1..OverlapLen |-> 64 + i]
OverlapPair(n1, n2, withFormatted1, withFormatted2) ==
    LET text1 == Fill(n1 - OverlapLen, 120) \o Shared
        text2 == Shared \o Fill(n2 - OverlapLen, 121)
    IN <<ChunkResult(0, COMPLETED, text1, IF withFormatted1 THEN text1 ELSE <<>>),
         ChunkResult(1, COMPLETED, text2, IF withFormatted2 THEN text2 ELSE <<>>)>>

OverlapInputs ==
    {OverlapPair(n1, n2, f1, f2) :
        n1 \in TextLens, n2 \in TextLens, f1 \in BOOLEAN, f2 \in BOOLEAN}

\* three adjacent chunks, a long one first, the last two meeting in the
\* 20-character overlap
OverlapTriple(n0, n1, n2) ==
    LET text0 == Fill(n0, 119)
        text1 == Fill(n1 - OverlapLen, 120) \o Shared
        text2 == Shared \o Fill(n2 - OverlapLen, 121)
    IN <<ChunkResult(0, COMPLETED, text0, text0),
         ChunkResult(1, COMPLETED, text1, text1),
         ChunkResult(2, COMPLETED, text2, text2)>>

TripleInputs == {OverlapTriple(600, n1, n2) : n1 \in {60, 200}, n2 \in {200, 600}}

CombInputs == ShortInputs \cup OverlapInputs \cup TripleInputs

InitComb ==
    /\ cmb_in = <<>>
    /\ cmb_out = [raw |-> <<>>, formatted |-> <<>>]
    /\ cmb_called = FALSE

\* combine_results(results) called with a list of the caller's choosing
CombineResults ==
    /\ ~cmb_called
    /\ \E results \in CombInputs :
          /\ cmb_in' = results
          /\ cmb_out' = combine_results(results)
    /\ cmb_called' = TRUE
    /\ UNCHANGED <<recVars, procVars, rmVars, chVars>>

\* the chunk ids handed to the processor and to the RetryManager
ChunkIds == 0..(MaxChunks - 1)

\* ------------------------------------------------------------------------
\* RetryManager: classification of error texts, attempts, the retry queue
\* ------------------------------------------------------------------------
\* RetryStrategy
IMMEDIATE == "immediate"
EXPONENTIAL == "exponential"
FIXED_DELAY == "fixed_delay"
NO_RETRY == "no_retry"

\* RetryConfig(max_retries, base_delay, strategy), max_delay left at 60.0;
\* delays in seconds
RetryConfig(mr, bd, st) ==
    [max_retries |-> mr, base_delay |-> bd, max_delay |-> 60, strategy |-> st]

\* the characters of a Python str, as code points
Chars(s) ==
    CASE s = "Network timeout" ->
           <<78, 101, 116, 119, 111, 114, 107, 32, 116, 105, 109, 101, 111, 117, 116>>
      [] s = "NETWORK TIMEOUT" ->
           <<78, 69, 84, 87, 79, 82, 75, 32, 84, 73, 77, 69, 79, 85, 84>>
      [] s = "Connection timed out" ->
           <<67, 111, 110, 110, 101, 99, 116, 105, 111, 110, 32, 116, 105, 109, 101, 100, 32, 111, 117, 116>>
      [] s = "Rate limit" ->
           <<82, 97, 116, 101, 32, 108, 105, 109, 105, 116>>
      [] s = "API rate limit" ->
           <<65, 80, 73, 32, 114, 97, 116, 101, 32, 108, 105, 109, 105, 116>>
      [] s = "API rate limit exceeded" ->
           <<65, 80, 73, 32, 114, 97, 116, 101, 32, 108, 105, 109, 105, 116, 32, 101, 120, 99, 101, 101, 100, 101, 100>>
      [] s = "Network error" ->
           <<78, 101, 116, 119, 111, 114, 107, 32, 101, 114, 114, 111, 114>>
      [] s = "Authentication" ->
           <<65, 117, 116, 104, 101, 110, 116, 105, 99, 97, 116, 105, 111, 110>>
      [] s = "Authentication failed" ->
           <<65, 117, 116, 104, 101, 110, 116, 105, 99, 97, 116, 105, 111, 110, 32, 102, 97, 105, 108, 101, 100>>
      [] s = "API key" ->
           <<65, 80, 73, 32, 107, 101, 121>>
      [] s = "Invalid API key" ->
           <<73, 110, 118, 97, 108, 105, 100, 32, 65, 80, 73, 32, 107, 101, 121>>
      [] s = "default" ->
           <<100, 101, 102, 97, 117, 108, 116>>
      [] s = "Unknown error" ->
           <<85, 110, 107, 110, 111, 119, 110, 32, 101, 114, 114, 111, 114>>
      [] s = "Authentication failed: Network timeout" ->
           <<65, 117, 116, 104, 101, 110, 116, 105, 99, 97, 116, 105, 111, 110, 32, 102, 97, 105, 108, 101, 100, 58, 32, 78, 101, 116, 119, 111, 114, 107, 32, 116, 105, 109, 101, 111, 117, 116>>
      [] s = "ASR transcription failed: Network timeout" ->
           <<65, 83, 82, 32, 116, 114, 97, 110, 115, 99, 114, 105, 112, 116, 105, 111, 110, 32, 102, 97, 105, 108, 101, 100, 58, 32, 78, 101, 116, 119, 111, 114, 107, 32, 116, 105, 109, 101, 111, 117, 116>>
      [] s = "Formatting API call failed: Rate limit" ->
           <<70, 111, 114, 109, 97, 116, 116, 105, 110, 103, 32, 65, 80, 73, 32, 99, 97, 108, 108, 32, 102, 97, 105, 108, 101, 100, 58, 32, 82, 97, 116, 101, 32, 108, 105, 109, 105, 116>>
      [] OTHER -> <<>>

\* ERROR_RETRY_CONFIG, in the order of the dict
ERROR_RETRY_CONFIG ==
    << [pattern |-> Chars("Network timeout"), config |-> RetryConfig(1, 0, IMMEDIATE)],
       [pattern |-> Chars("Connection timed out"), config |-> RetryConfig(1, 0, IMMEDIATE)],
       [pattern |-> Chars("Rate limit"), config |-> RetryConfig(1, 60, FIXED_DELAY)],
       [pattern |-> Chars("API rate limit"), config |-> RetryConfig(1, 60, FIXED_DELAY)],
       [pattern |-> Chars("Network error"), config |-> RetryConfig(1, 5, FIXED_DELAY)],
       [pattern |-> Chars("Authentication"), config |-> RetryConfig(0, 5, NO_RETRY)],
       [pattern |-> Chars("API key"), config |-> RetryConfig(0, 5, NO_RETRY)],
       [pattern |-> Chars("default"), config |-> RetryConfig(1, 10, FIXED_DELAY)] >>

\* str.lower() on ASCII letters
lower(s) == [i \in 1..Len(s) |-> IF s[i] \in 65..90 THEN s[i] + 32 ELSE s[i]]

\* pattern in text
Contains(pattern, text) ==
    \E i \in 0..(Len(text) - Len(pattern)) :
        SubSeq(text, i + 1, i + Len(pattern)) = pattern

\* for pattern, config in ERROR_RETRY_CONFIG.items(): the first pattern found
\* in the text, 0 when the loop ends without one
RECURSIVE FirstMatch(_, _, _)
FirstMatch(table, text, k) ==
    IF k > Len(table) THEN 0
    ELSE IF Contains(table[k].pattern, text) THEN k
    ELSE FirstMatch(table, text, k + 1)

\* _get_retry_config that compares the text as it is
_get_retry_config_CaseSensitive(error) ==
    LET k == FirstMatch(ERROR_RETRY_CONFIG, Chars(error), 1)
    IN IF k = 0 THEN ERROR_RETRY_CONFIG[Len(ERROR_RETRY_CONFIG)].config
       ELSE ERROR_RETRY_CONFIG[k].config

\* _get_retry_config(error): both sides lowered; ERROR_RETRY_CONFIG["default"]
\* is the last row of the table
_get_retry_config(error) ==
    LET lowered == [k \in 1..Len(ERROR_RETRY_CONFIG) |->
                       [ERROR_RETRY_CONFIG[k] EXCEPT !.pattern = lower(@)]]
        k == FirstMatch(lowered, lower(Chars(error)), 1)
    IN IF k = 0 THEN ERROR_RETRY_CONFIG[Len(ERROR_RETRY_CONFIG)].config
       ELSE ERROR_RETRY_CONFIG[k].config

\* every error text in play
AllErrorTexts ==
    {"Network timeout", "NETWORK TIMEOUT", "Connection timed out", "Rate limit",
     "API rate limit exceeded", "Network error", "Authentication failed",
     "Invalid API key", "Unknown error", "Authentication failed: Network timeout",
     "ASR transcription failed: Network timeout",
     "Formatting API call failed: Rate limit"}

\* self._get_retry_config(error) for each of them
ConfigOf == [error \in AllErrorTexts |-> _get_retry_config(error)]

\* _calculate_delay(config, retry_count)
_calculate_delay(config, retry_count) ==
    IF config.strategy = IMMEDIATE THEN 0
    ELSE IF config.strategy = FIXED_DELAY THEN config.base_delay
    ELSE IF config.strategy = EXPONENTIAL
    THEN Min(config.base_delay * (2 ^ retry_count), config.max_delay)
    ELSE config.base_delay

\* should_retry that lets a chunk through at the policy maximum
should_retry_OffByOne(counts, id, error) ==
    LET config == ConfigOf[error]
    IN IF counts[id] > config.max_retries THEN FALSE
       ELSE IF config.strategy = NO_RETRY THEN FALSE
       ELSE TRUE

\* should_retry(chunk_id, error), counts being retry_counts with 0 for a
\* chunk id that is not in the dict
should_retry(counts, id, error) ==
    LET current_retries == counts[id]
        config == ConfigOf[error]
    IN IF current_retries >= config.max_retries THEN FALSE
       ELSE IF config.strategy = NO_RETRY THEN FALSE
       ELSE TRUE

\* schedule_retry that does not ask should_retry
schedule_check_Unchecked(counts, id, error, t) ==
    [ok |-> TRUE, chunk_id |-> id, error |-> error, current_retries |-> counts[id],
     retry_time |-> t + _calculate_delay(ConfigOf[error], counts[id])]

\* schedule_retry up to the lock: the should_retry test, the attempts read
\* and the retry time computed from the clock
schedule_check(counts, id, error, t) ==
    IF ~should_retry(counts, id, error)
    THEN [ok |-> FALSE, chunk_id |-> id, error |-> error, current_retries |-> 0,
          retry_time |-> 0]
    ELSE [ok |-> TRUE, chunk_id |-> id, error |-> error, current_retries |-> counts[id],
          retry_time |-> t + _calculate_delay(ConfigOf[error], counts[id])]

\* schedule_retry under the lock: enqueue and count the attempt
schedule_enqueue(queue, counts, call) ==
    [retry_queue |-> Append(queue, [chunk_id |-> call.chunk_id,
                                    retry_time |-> call.retry_time]),
     retry_counts |-> [counts EXCEPT ![call.chunk_id] = call.current_retries + 1]]

\* schedule_retry(chunk_id, error) run by one thread without interruption
schedule_retry(queue, counts, id, error, t) ==
    LET call == schedule_check(counts, id, error, t)
    IN IF call.ok
       THEN LET after == schedule_enqueue(queue, counts, call)
            IN [retry_queue |-> after.retry_queue,
                retry_counts |-> after.retry_counts,
                returned |-> <<call.retry_time>>]
       ELSE [retry_queue |-> queue, retry_counts |-> counts, returned |-> <<>>]

\* the error texts handed to the RetryManager
ErrorTexts ==
    {"Network timeout", "NETWORK TIMEOUT", "Connection timed out", "Rate limit",
     "API rate limit exceeded", "Network error", "Authentication failed",
     "Invalid API key", "Unknown error", "Authentication failed: Network timeout"}

\* the error texts of the failures that get scheduled
ScheduledErrors == {"Network timeout", "Rate limit", "Authentication failed"}

\* a finished RetryManager call: its arguments, the bool it answered and the
\* time or the chunk ids it returned
RmCall(op, id, error, answer, returned) ==
    [op |-> op, chunk_id |-> id, error |-> error, answer |-> answer,
     returned |-> returned]

InitRetry ==
    /\ retry_queue = <<>>
    /\ retry_counts = [id \in ChunkIds |-> 0]
    /\ is_active = TRUE
    /\ sched = <<>>
    /\ rm_last = RmCall("", 0, "", FALSE, <<>>)
    /\ should_run = <<>>

\* should_retry that counts the attempt it has just allowed
ShouldRetry_Counts(id, error) ==
    /\ LET answer == should_retry(retry_counts, id, error)
       IN /\ rm_last' = RmCall("should_retry", id, error, answer, <<>>)
          /\ should_run' =
                IF rm_last.op = "should_retry" /\ rm_last.chunk_id = id
                   /\ rm_last.error = error
                THEN IF Len(should_run) < 2 THEN Append(should_run, answer)
                     ELSE <<should_run[2], answer>>
                ELSE <<answer>>
          /\ retry_counts' = IF answer THEN [retry_counts EXCEPT ![id] = @ + 1]
                             ELSE retry_counts
    /\ UNCHANGED <<retry_queue, is_active, sched>>
    /\ UNCHANGED <<recVars, cmbVars, procVars, chVars>>

\* should_retry(chunk_id, error)
ShouldRetry(id, error) ==
    /\ LET answer == should_retry(retry_counts, id, error)
       IN /\ rm_last' = RmCall("should_retry", id, error, answer, <<>>)
          /\ should_run' =
                IF rm_last.op = "should_retry" /\ rm_last.chunk_id = id
                   /\ rm_last.error = error
                THEN IF Len(should_run) < 2 THEN Append(should_run, answer)
                     ELSE <<should_run[2], answer>>
                ELSE <<answer>>
    /\ UNCHANGED <<retry_queue, retry_counts, is_active, sched>>
    /\ UNCHANGED <<recVars, cmbVars, procVars, chVars>>

\* schedule_retry(chunk_id, error), up to the lock
ScheduleRetryBegin(id, error) ==
    /\ Len(sched) < MaxCallers
    /\ Len(retry_queue) + Len(sched) < MaxQueue
    /\ LET call == schedule_check(retry_counts, id, error, now)
       IN IF call.ok
          THEN /\ sched' = Append(sched, call)
               /\ UNCHANGED rm_last
          ELSE /\ rm_last' = RmCall("schedule_retry", id, error, FALSE, <<>>)
               /\ UNCHANGED sched
    /\ should_run' = <<>>
    /\ UNCHANGED <<retry_queue, retry_counts, is_active>>
    /\ UNCHANGED <<recVars, cmbVars, procVars, chVars>>

\* schedule_retry, the part under retry_lock and the return
ScheduleRetryEnqueue(k) ==
    /\ k \in 1..Len(sched)
    /\ LET after == schedule_enqueue(retry_queue, retry_counts, sched[k])
       IN /\ retry_queue' = after.retry_queue
          /\ retry_counts' = after.retry_counts
    /\ sched' = SubSeq(sched, 1, k - 1) \o SubSeq(sched, k + 1, Len(sched))
    /\ rm_last' = RmCall("schedule_retry", sched[k].chunk_id, sched[k].error, TRUE,
                         <<sched[k].retry_time>>)
    /\ should_run' = <<>>
    /\ UNCHANGED is_active
    /\ UNCHANGED <<recVars, cmbVars, procVars, chVars>>

\* the chunk ids of queue entries
IdsOf(queue) == [i \in 1..Len(queue) |-> queue[i].chunk_id]

\* get_ready_retries that leaves an entry whose time is the current time
get_ready_retries_Strict(queue, active, current_time) ==
    IF ~active THEN [ready_chunks |-> <<>>, retry_queue |-> queue]
    ELSE [ready_chunks |-> IdsOf(SelectSeq(queue,
                                 LAMBDA e : e.retry_time < current_time)),
          retry_queue |-> SelectSeq(queue,
                                 LAMBDA e : ~(e.retry_time < current_time))]

\* get_ready_retries without the test of is_active
get_ready_retries_IgnoresActive(queue, active, current_time) ==
    [ready_chunks |-> IdsOf(SelectSeq(queue,
                            LAMBDA e : e.retry_time <= current_time)),
     retry_queue |-> SelectSeq(queue,
                            LAMBDA e : ~(e.retry_time <= current_time))]

\* get_ready_retries(): the list returned and the queue left, the loop over
\* the queue running under retry_lock
get_ready_retries(queue, active, current_time) ==
    IF ~active THEN [ready_chunks |-> <<>>, retry_queue |-> queue]
    ELSE [ready_chunks |-> IdsOf(SelectSeq(queue,
                                 LAMBDA e : e.retry_time <= current_time)),
          retry_queue |-> SelectSeq(queue,
                                 LAMBDA e : ~(e.retry_time <= current_time))]

\* get_ready_retries()
GetReadyRetries ==
    /\ LET got == get_ready_retries(retry_queue, is_active, now)
       IN /\ retry_queue' = got.retry_queue
          /\ rm_last' = RmCall("get_ready_retries", 0, "", is_active, got.ready_chunks)
    /\ should_run' = <<>>
    /\ UNCHANGED <<retry_counts, is_active, sched>>
    /\ UNCHANGED <<recVars, cmbVars, procVars, chVars>>

\* remove_chunk(chunk_id)
RemoveChunk(id) ==
    /\ retry_queue' = SelectSeq(retry_queue, LAMBDA e : e.chunk_id # id)
    /\ retry_counts' = [retry_counts EXCEPT ![id] = 0]
    /\ rm_last' = RmCall("remove_chunk", id, "", FALSE, <<>>)
    /\ should_run' = <<>>
    /\ UNCHANGED <<is_active, sched>>
    /\ UNCHANGED <<recVars, cmbVars, procVars, chVars>>

\* cancel_all_retries()
CancelAllRetries ==
    /\ retry_queue' = <<>>
    /\ retry_counts' = [id \in ChunkIds |-> 0]
    /\ is_active' = FALSE
    /\ rm_last' = RmCall("cancel_all_retries", 0, "", FALSE, <<>>)
    /\ should_run' = <<>>
    /\ UNCHANGED sched
    /\ UNCHANGED <<recVars, cmbVars, procVars, chVars>>

\* ------------------------------------------------------------------------
\* ChunkProcessor: submission, worker tasks, completion, retry, cancel
\* ------------------------------------------------------------------------

\* what the collaborators may return or raise
AsrTexts == {<<97>>}
FormattedTexts == {<<65>>}
AsrFailures == {"ASR transcription failed: Network timeout"}
FormatFailures == {"Formatting API call failed: Rate limit"}

\* a task of the executor: pc is its place in _process_chunk_task and
\* _handle_chunk_completion, res the ChunkResult object it works on, raw its
\* local raw_text; out, failure and sawCancel record how it ended, cb the
\* callbacks its done-callback made, in order
NewTask(id) ==
    [chunk_id |-> id, pc |-> "queued", res |-> 0, raw |-> <<>>,
     out |-> "", failure |-> "", sawCancel |-> FALSE, cb |-> <<>>]

\* workers occupied by a task or by its done-callback
Busy == {t \in 1..Len(tasks) : tasks[t].pc \in {"asr", "fmt", "returned", "stored"}}

Queued == {t \in 1..Len(tasks) : tasks[t].pc = "queued"}

\* process_chunk that never looks at cancel_flag
process_chunk_accepts_Always(flag) == TRUE

\* process_chunk: if self.cancel_flag: return None
process_chunk_accepts(flag) == ~flag

\* a collaborator failure that unwinds out of the task
TaskFails_Unwinds(task, obj, e) ==
    [task |-> [task EXCEPT !.pc = "raised", !.failure = e],
     obj |-> obj]

\* except Exception as e: result.status = ERROR; result.error = str(e)
TaskFails(task, obj, e) ==
    [task |-> [task EXCEPT !.pc = "returned", !.out = ERROR, !.failure = e],
     obj |-> [obj EXCEPT !.status = ERROR, !.error = e]]

\* if self.cancel_flag: result.status = CANCELLED; return result
TaskCancelled(task, obj) ==
    [task |-> [task EXCEPT !.pc = "returned", !.out = CANCELLED, !.sawCancel = TRUE],
     obj |-> [obj EXCEPT !.status = CANCELLED]]

\* result.status = COMPLETED; return result
TaskCompletes(task, obj, flag) ==
    [task |-> [task EXCEPT !.pc = "returned", !.out = COMPLETED,
                           !.sawCancel = @ \/ flag],
     obj |-> [obj EXCEPT !.status = COMPLETED]]

InitProcWith(fmt, rm) ==
    /\ format_enabled = fmt
    /\ retry_manager = rm
    /\ cancel_flag = FALSE
    /\ chunk_results = [id \in ChunkIds |-> 0]
    /\ processing_chunks = {}
    /\ chunks_deleted = 0
    /\ objs = <<>>
    /\ tasks = <<>>
    /\ rejected = {}
    /\ retryHandles = [id \in ChunkIds |-> 0]
    /\ cancelAllCalled = FALSE

\* ChunkProcessor() with its defaults: format_enabled=True, retry_manager=None
InitProc == InitProcWith(TRUE, FALSE)

\* the part of process_chunk after the cancel_flag test
Submit(id, results, live, os, ts) ==
    /\ processing_chunks' = live \cup {id}
    /\ objs' = Append(os, ChunkResult(id, PENDING, <<>>, <<>>))
    /\ chunk_results' = [results EXCEPT ![id] = Len(os) + 1]
    /\ tasks' = Append(ts, NewTask(id))

\* process_chunk(chunk_id, audio_data); the host submits the chunks of the
\* segmenter, each once and in the order of their ids
ProcessChunk(id) ==
    /\ IF process_chunk_accepts(cancel_flag)
       THEN /\ chunk_results[id] = 0
            /\ \A k \in 0..(id - 1) : chunk_results[k] # 0
            /\ Len(tasks) < MaxTasks
            /\ Submit(id, chunk_results, processing_chunks, objs, tasks)
            /\ UNCHANGED rejected
       ELSE /\ rejected' = rejected \cup {id}
            /\ UNCHANGED <<chunk_results, processing_chunks, objs, tasks>>
    /\ UNCHANGED <<format_enabled, retry_manager, cancel_flag, chunks_deleted,
                   retryHandles, cancelAllCalled>>
    /\ UNCHANGED <<recVars, cmbVars, rmVars, chVars>>

\* process_chunk(chunk_id, audio_data) on the audio thread, up to the
\* cancel_flag test: a call that passes it goes on to store and submit
ProcessChunkBegin(id) ==
    /\ \A t \in 1..Len(tasks) : tasks[t].pc # "submitting"
    /\ IF process_chunk_accepts(cancel_flag)
       THEN /\ chunk_results[id] = 0
            /\ \A k \in 0..(id - 1) : chunk_results[k] # 0
            /\ Len(tasks) < MaxTasks
            /\ tasks' = Append(tasks, [NewTask(id) EXCEPT !.pc = "submitting"])
            /\ UNCHANGED rejected
       ELSE /\ rejected' = rejected \cup {id}
            /\ UNCHANGED tasks
    /\ UNCHANGED <<format_enabled, retry_manager, cancel_flag, chunk_results,
                   processing_chunks, chunks_deleted, objs, retryHandles,
                   cancelAllCalled>>
    /\ UNCHANGED <<recVars, cmbVars, rmVars, chVars>>

\* process_chunk after the test: the audio and a pending result are stored
\* and the task is handed to the executor
ProcessChunkStore(t) ==
    /\ tasks[t].pc = "submitting"
    /\ LET id == tasks[t].chunk_id
       IN /\ processing_chunks' = processing_chunks \cup {id}
          /\ objs' = Append(objs, ChunkResult(id, PENDING, <<>>, <<>>))
          /\ chunk_results' = [chunk_results EXCEPT ![id] = Len(objs) + 1]
    /\ tasks' = [tasks EXCEPT ![t].pc = "queued"]
    /\ UNCHANGED <<format_enabled, retry_manager, cancel_flag, chunks_deleted,
                   rejected, retryHandles, cancelAllCalled>>
    /\ UNCHANGED <<recVars, cmbVars, rmVars, chVars>>

\* retry_chunk(chunk_id)
RetryChunk(id) ==
    /\ IF chunk_results[id] = 0
          \/ objs[chunk_results[id]].retry_count >= 1
          \/ id \notin processing_chunks
       THEN UNCHANGED <<chunk_results, processing_chunks, objs, tasks, retryHandles>>
       ELSE LET r == chunk_results[id]
                marked == [objs EXCEPT ![r].retry_count = @ + 1, ![r].status = PENDING]
            IN IF process_chunk_accepts(cancel_flag)
               THEN /\ Len(tasks) < MaxTasks
                    /\ Submit(id, chunk_results, processing_chunks, marked, tasks)
                    /\ retryHandles' = [retryHandles EXCEPT ![id] = @ + 1]
               ELSE /\ objs' = marked
                    /\ UNCHANGED <<chunk_results, processing_chunks, tasks, retryHandles>>
    /\ UNCHANGED <<format_enabled, retry_manager, cancel_flag, chunks_deleted,
                   rejected, cancelAllCalled>>
    /\ UNCHANGED <<recVars, cmbVars, rmVars, chVars>>

\* cancel_all_processing(): a queued future is cancelled and its done-callback
\* runs at once, where future.result() raises and nothing else happens
CancelAllProcessing ==
    /\ cancel_flag' = TRUE
    /\ tasks' = [t \in 1..Len(tasks) |->
                    IF tasks[t].pc = "queued"
                    THEN [tasks[t] EXCEPT !.pc = "cancelled"] ELSE tasks[t]]
    /\ processing_chunks' = {}
    /\ cancelAllCalled' = TRUE
    /\ UNCHANGED <<format_enabled, retry_manager, chunk_results, chunks_deleted,
                   objs, rejected, retryHandles>>
    /\ UNCHANGED <<recVars, cmbVars, rmVars, chVars>>

\* a worker takes the oldest queued task: _process_chunk_task up to the ASR call
TaskStart(t) ==
    /\ t \in Queued
    /\ \A u \in Queued : t <= u
    /\ Cardinality(Busy) < max_workers
    /\ LET r == chunk_results[tasks[t].chunk_id]
           started == [tasks[t] EXCEPT !.res = r]
       IN IF cancel_flag
          THEN LET c == TaskCancelled(started, objs[r])
               IN /\ tasks' = [tasks EXCEPT ![t] = c.task]
                  /\ objs' = [objs EXCEPT ![r] = c.obj]
          ELSE /\ tasks' = [tasks EXCEPT ![t] = [started EXCEPT !.pc = "asr"]]
               /\ objs' = [objs EXCEPT ![r].status = PROCESSING]
    /\ UNCHANGED <<format_enabled, retry_manager, cancel_flag, chunk_results,
                   processing_chunks, chunks_deleted, rejected,
                   retryHandles, cancelAllCalled>>
    /\ UNCHANGED <<recVars, cmbVars, rmVars, chVars>>

\* transcribe_audio returns: the second cancel test and the way to the Formatter
AsrReturns(t) ==
    /\ tasks[t].pc = "asr"
    /\ \E raw_text \in AsrTexts :
          LET r == tasks[t].res
              got == [tasks[t] EXCEPT !.raw = raw_text]
              obj == [objs[r] EXCEPT !.raw_text = raw_text]
          IN IF cancel_flag
             THEN LET c == TaskCancelled(got, obj)
                  IN /\ tasks' = [tasks EXCEPT ![t] = c.task]
                     /\ objs' = [objs EXCEPT ![r] = c.obj]
             ELSE IF format_enabled /\ raw_text # <<>>
             THEN /\ tasks' = [tasks EXCEPT ![t] = [got EXCEPT !.pc = "fmt"]]
                  /\ objs' = [objs EXCEPT ![r] = obj]
             ELSE LET c == TaskCompletes(got, obj, FALSE)
                  IN /\ tasks' = [tasks EXCEPT ![t] = c.task]
                     /\ objs' = [objs EXCEPT ![r] = c.obj]
    /\ UNCHANGED <<format_enabled, retry_manager, cancel_flag, chunk_results,
                   processing_chunks, chunks_deleted, rejected,
                   retryHandles, cancelAllCalled>>
    /\ UNCHANGED <<recVars, cmbVars, rmVars, chVars>>

\* transcribe_audio (or writing the WAV file) raises
AsrFails(t) ==
    /\ tasks[t].pc = "asr"
    /\ \E e \in AsrFailures :
          LET r == tasks[t].res
              c == TaskFails(tasks[t], objs[r], e)
          IN /\ tasks' = [tasks EXCEPT ![t] = c.task]
             /\ objs' = [objs EXCEPT ![r] = c.obj]
    /\ UNCHANGED <<format_enabled, retry_manager, cancel_flag, chunk_results,
                   processing_chunks, chunks_deleted, rejected,
                   retryHandles, cancelAllCalled>>
    /\ UNCHANGED <<recVars, cmbVars, rmVars, chVars>>

\* format_text returns: the task completes
FormatReturns(t) ==
    /\ tasks[t].pc = "fmt"
    /\ \E formatted_text \in FormattedTexts :
          LET r == tasks[t].res
              c == TaskCompletes(tasks[t],
                                 [objs[r] EXCEPT !.formatted_text = formatted_text],
                                 cancel_flag)
          IN /\ tasks' = [tasks EXCEPT ![t] = c.task]
             /\ objs' = [objs EXCEPT ![r] = c.obj]
    /\ UNCHANGED <<format_enabled, retry_manager, cancel_flag, chunk_results,
                   processing_chunks, chunks_deleted, rejected,
                   retryHandles, cancelAllCalled>>
    /\ UNCHANGED <<recVars, cmbVars, rmVars, chVars>>

\* format_text raises
FormatFails(t) ==
    /\ tasks[t].pc = "fmt"
    /\ \E e \in FormatFailures :
          LET r == tasks[t].res
              c == TaskFails(tasks[t], objs[r], e)
          IN /\ tasks' = [tasks EXCEPT ![t] = c.task]
             /\ objs' = [objs EXCEPT ![r] = c.obj]
    /\ UNCHANGED <<format_enabled, retry_manager, cancel_flag, chunk_results,
                   processing_chunks, chunks_deleted, rejected,
                   retryHandles, cancelAllCalled>>
    /\ UNCHANGED <<recVars, cmbVars, rmVars, chVars>>

\* _handle_chunk_completion, first half: store the result, drop the audio
HandlerStores(t) ==
    /\ tasks[t].pc = "returned"
    /\ LET id == tasks[t].chunk_id
       IN /\ chunk_results' = [chunk_results EXCEPT ![id] = tasks[t].res]
          /\ processing_chunks' = processing_chunks \ {id}
          /\ chunks_deleted' = IF id \in processing_chunks
                               THEN chunks_deleted + 1 ELSE chunks_deleted
    /\ tasks' = [tasks EXCEPT ![t].pc = "stored"]
    /\ UNCHANGED <<format_enabled, retry_manager, cancel_flag, objs, rejected,
                   retryHandles, cancelAllCalled>>
    /\ UNCHANGED <<recVars, cmbVars, rmVars, chVars>>

\* _handle_chunk_completion, second half: the callback chosen by result.status
HandlerCallsBack(t) ==
    /\ tasks[t].pc = "stored"
    /\ LET result == objs[tasks[t].res]
           made == IF result.status = COMPLETED
                   THEN <<[kind |-> "on_chunk_completed", error |-> ""]>>
                   ELSE IF result.status = ERROR
                   THEN <<[kind |-> "on_chunk_error", error |-> result.error]>>
                        \o (IF retry_manager /\ result.error # ""
                            THEN <<[kind |-> "schedule_retry", error |-> result.error]>>
                            ELSE <<>>)
                   ELSE <<>>
           id == tasks[t].chunk_id
           after == schedule_retry(retry_queue, retry_counts, id, result.error, now)
       IN /\ tasks' = [tasks EXCEPT ![t].pc = "done", ![t].cb = made]
          \* retry_time = self.retry_manager.schedule_retry(chunk_id, result.error)
          /\ IF result.status = ERROR /\ retry_manager /\ result.error # ""
             THEN /\ retry_queue' = after.retry_queue
                  /\ retry_counts' = after.retry_counts
                  /\ rm_last' = RmCall("schedule_retry", id, result.error,
                                       after.returned # <<>>, after.returned)
                  /\ should_run' = <<>>
                  /\ UNCHANGED <<is_active, sched>>
             ELSE UNCHANGED rmVars
    /\ UNCHANGED <<format_enabled, retry_manager, cancel_flag, chunk_results,
                   processing_chunks, chunks_deleted, objs, rejected,
                   retryHandles, cancelAllCalled>>
    /\ UNCHANGED <<recVars, cmbVars, chVars>>

\* ------------------------------------------------------------------------
\* ChunkProcessor.process_retries: the host's poll of the RetryManager
\* ------------------------------------------------------------------------
\* a finished process_retries call: the chunk ids get_ready_retries handed
\* out and the list returned
RmPoll(ready, retried) ==
    [op |-> "process_retries", chunk_id |-> 0, error |-> "", answer |-> TRUE,
     returned |-> retried, ready |-> ready]

\* the for loop of process_retries over ready_chunks[i..], st holding the
\* fields of the processor and of the RetryManager and the retried list
RECURSIVE RetryReady(_, _, _)
RetryReady(ready, i, st) ==
    IF i > Len(ready) THEN st
    ELSE LET id == ready[i]
         IN IF id \in st.processing_chunks
            THEN \* retry_chunk(chunk_id)
                 IF st.chunk_results[id] = 0
                    \/ st.objs[st.chunk_results[id]].retry_count >= 1
                 THEN RetryReady(ready, i + 1, st)
                 ELSE LET r == st.chunk_results[id]
                          marked == [st.objs EXCEPT ![r].retry_count = @ + 1,
                                                    ![r].status = PENDING]
                      IN IF process_chunk_accepts(st.cancel_flag)
                         THEN RetryReady(ready, i + 1,
                                [st EXCEPT
                                   !.objs = Append(marked, ChunkResult(id, PENDING, <<>>, <<>>)),
                                   !.chunk_results = [@ EXCEPT ![id] = Len(marked) + 1],
                                   !.tasks = Append(@, NewTask(id)),
                                   !.retryHandles = [@ EXCEPT ![id] = @ + 1],
                                   !.retried = Append(@, id)])
                         ELSE RetryReady(ready, i + 1, [st EXCEPT !.objs = marked])
            ELSE \* self.retry_manager.remove_chunk(chunk_id)
                 RetryReady(ready, i + 1,
                    [st EXCEPT
                       !.retry_queue = SelectSeq(@, LAMBDA e : e.chunk_id # id),
                       !.retry_counts = [@ EXCEPT ![id] = 0]])

\* process_retries()
ProcessRetries ==
    /\ IF ~retry_manager
       THEN /\ rm_last' = RmPoll(<<>>, <<>>)
            /\ UNCHANGED <<retry_queue, retry_counts, chunk_results,
                           processing_chunks, objs, tasks, retryHandles>>
       ELSE LET got == get_ready_retries(retry_queue, is_active, now)
                ready == got.ready_chunks
                remaining_queue == got.retry_queue
                st == RetryReady(ready, 1,
                         [chunk_results |-> chunk_results,
                          processing_chunks |-> processing_chunks,
                          objs |-> objs, tasks |-> tasks,
                          retryHandles |-> retryHandles,
                          cancel_flag |-> cancel_flag,
                          retry_queue |-> remaining_queue,
                          retry_counts |-> retry_counts,
                          retried |-> <<>>])
            IN /\ Len(tasks) + Len(ready) <= MaxTasks
               /\ chunk_results' = st.chunk_results
               /\ processing_chunks' = st.processing_chunks
               /\ objs' = st.objs
               /\ tasks' = st.tasks
               /\ retryHandles' = st.retryHandles
               /\ retry_queue' = st.retry_queue
               /\ retry_counts' = st.retry_counts
               /\ rm_last' = RmPoll(ready, st.retried)
    /\ should_run' = <<>>
    /\ UNCHANGED <<is_active, sched>>
    /\ UNCHANGED <<format_enabled, retry_manager, cancel_flag, chunks_deleted,
                   rejected, cancelAllCalled>>
    /\ UNCHANGED <<recVars, cmbVars, chVars>>

\* ------------------------------------------------------------------------
\* CancelHandler: request_cancel and execute_cancel
\* ------------------------------------------------------------------------
\* the buttons of the confirmation dialog
Buttons == {"save", "discard", "cancel"}

\* request_cancel without the is_cancelling test
request_cancel_NoGuard(cancelling, show_dialog, button) ==
    IF ~show_dialog
    THEN [returned |-> "force", dialog |-> FALSE, emitted |-> TRUE, is_cancelling |-> TRUE]
    ELSE IF button \in {"save", "discard"}
    THEN [returned |-> button, dialog |-> TRUE, emitted |-> TRUE, is_cancelling |-> TRUE]
    ELSE [returned |-> "cancel", dialog |-> TRUE, emitted |-> FALSE,
          is_cancelling |-> cancelling]

\* request_cancel(show_dialog), button being the one the user clicks when the
\* dialog is shown: what it returns, whether the dialog was shown and
\* cancel_requested emitted, and is_cancelling afterwards
request_cancel(cancelling, show_dialog, button) ==
    IF cancelling
    THEN [returned |-> "cancel", dialog |-> FALSE, emitted |-> FALSE,
          is_cancelling |-> cancelling]
    ELSE IF ~show_dialog
    THEN [returned |-> "force", dialog |-> FALSE, emitted |-> TRUE, is_cancelling |-> TRUE]
    ELSE IF button \in {"save", "discard"}
    THEN [returned |-> button, dialog |-> TRUE, emitted |-> TRUE, is_cancelling |-> TRUE]
    ELSE [returned |-> "cancel", dialog |-> TRUE, emitted |-> FALSE,
          is_cancelling |-> cancelling]

\* execute_cancel whose discard branch clears the display before it cancels
\* the processing
execute_plan_ClearFirst(choice, recording) ==
    IF choice = "cancel" THEN <<>>
    ELSE <<"ui:cancelling">>
         \o (IF recording THEN <<"stop_recording">> ELSE <<>>)
         \o (IF choice = "discard" THEN <<"ui:clear_all", "cancel_all_processing">>
             ELSE IF choice = "save" THEN <<"cancel_flag", "ui:wait_completion">>
             ELSE <<>>)
         \o <<"emit:cancel_completed", "ui:cancelled">>

\* execute_cancel whose abort branch runs the steps of a forced cancel
execute_plan_AbortStops(choice, recording) ==
    <<"ui:cancelling">>
    \o (IF recording THEN <<"stop_recording">> ELSE <<>>)
    \o (IF choice = "discard" THEN <<"cancel_all_processing", "ui:clear_all">>
        ELSE IF choice = "save" THEN <<"cancel_flag", "ui:wait_completion">>
        ELSE <<>>)
    \o <<"emit:cancel_completed", "ui:cancelled">>

\* execute_cancel whose forced cancel sets the cancel flag as a save does
execute_plan_ForceSetsFlag(choice, recording) ==
    IF choice = "cancel" THEN <<>>
    ELSE <<"ui:cancelling">>
         \o (IF recording THEN <<"stop_recording">> ELSE <<>>)
         \o (IF choice = "discard" THEN <<"cancel_all_processing", "ui:clear_all">>
             ELSE IF choice = "save" THEN <<"cancel_flag", "ui:wait_completion">>
             ELSE <<"cancel_flag">>)
         \o <<"emit:cancel_completed", "ui:cancelled">>

\* the steps of execute_cancel(choice, recorder, processor, ui_callback) in
\* the order of the code, recording being recorder.is_recording
execute_plan(choice, recording) ==
    IF choice = "cancel" THEN <<>>
    ELSE <<"ui:cancelling">>
         \o (IF recording THEN <<"stop_recording">> ELSE <<>>)
         \o (IF choice = "discard" THEN <<"cancel_all_processing", "ui:clear_all">>
             ELSE IF choice = "save" THEN <<"cancel_flag", "ui:wait_completion">>
             ELSE <<>>)
         \o <<"emit:cancel_completed", "ui:cancelled">>

\* the steps that call a collaborator and may raise
MayRaise == {"ui:cancelling", "stop_recording", "cancel_all_processing",
             "ui:clear_all", "ui:wait_completion", "ui:cancelled"}

\* a finished CancelHandler call
NoCall ==
    [op |-> "", choice |-> "", show_dialog |-> FALSE, dialog |-> FALSE,
     emitted |-> FALSE, steps |-> <<>>, failed |-> "", raised |-> FALSE,
     wasRecording |-> FALSE, wasCancelling |-> FALSE]

InitCancel ==
    /\ is_cancelling = FALSE
    /\ pending = ""
    /\ ch_last = NoCall

\* request_cancel(show_dialog)
RequestCancel(show_dialog, button) ==
    /\ LET r == request_cancel(is_cancelling, show_dialog, button)
       IN /\ is_cancelling' = r.is_cancelling
          /\ ch_last' = [NoCall EXCEPT !.op = "request_cancel",
                                       !.choice = r.returned,
                                       !.show_dialog = show_dialog,
                                       !.dialog = r.dialog,
                                       !.emitted = r.emitted,
                                       !.wasCancelling = is_cancelling]
          /\ pending' = IF r.returned = "cancel" THEN pending ELSE r.returned
    /\ UNCHANGED <<recVars, cmbVars, procVars, rmVars>>

\* execute_cancel that hands the final chunk of stop_recording to the executor
ExecuteCancelWith_SubmitsFinal(choice, failAt, errorFails) ==
    LET plan == execute_plan(choice, is_recording)
        done == IF failAt = 0 THEN plan ELSE SubSeq(plan, 1, failAt - 1)
        did(s) == \E i \in 1..Len(done) : done[i] = s
    IN /\ failAt \in 0..Len(plan)
       /\ failAt # 0 => plan[failAt] \in MayRaise
       \* recorder.stop_recording()
       /\ IF did("stop_recording")
          THEN /\ is_recording' = FALSE
               /\ emitted' = IF current_chunk # <<>>
                             THEN Append(emitted, [id |-> chunk_id,
                                                   data |-> _combine_chunk_data(current_chunk),
                                                   d |-> now - chunk_start_time,
                                                   final |-> TRUE,
                                                   ov |-> 0])
                             ELSE emitted
               /\ nStops' = nStops + 1
          ELSE UNCHANGED <<is_recording, emitted, nStops>>
       \* processor.cancel_all_processing() or processor.cancel_flag = True
       /\ IF did("cancel_all_processing")
          THEN /\ cancel_flag' = TRUE
               /\ tasks' = [t \in 1..Len(tasks) |->
                               IF tasks[t].pc = "queued"
                               THEN [tasks[t] EXCEPT !.pc = "cancelled"] ELSE tasks[t]]
               /\ processing_chunks' = {}
               /\ cancelAllCalled' = TRUE
          ELSE /\ cancel_flag' = (cancel_flag \/ did("cancel_flag"))
               /\ tasks' = IF did("stop_recording") /\ current_chunk # <<>>
                           THEN Append(tasks, NewTask(chunk_id)) ELSE tasks
               /\ UNCHANGED <<processing_chunks, cancelAllCalled>>
       \* except: ui_callback('error', str(e)); finally: is_cancelling = False
       /\ is_cancelling' = FALSE
       /\ pending' = ""
       /\ ch_last' = [NoCall EXCEPT !.op = "execute_cancel",
                                    !.choice = choice,
                                    !.steps = IF failAt # 0 /\ ~errorFails
                                              THEN Append(done, "ui:error") ELSE done,
                                    !.failed = IF failAt = 0 THEN "" ELSE plan[failAt],
                                    !.raised = (failAt # 0 /\ errorFails),
                                    !.wasRecording = is_recording,
                                    !.wasCancelling = is_cancelling]
       /\ UNCHANGED <<chunk_id, chunk_start_time, recording_start_time, current_chunk,
                      recent_audio, now, submitted, lastAdd, nBlocks, nStarts>>
       /\ UNCHANGED <<format_enabled, retry_manager, chunk_results, chunks_deleted,
                      objs, rejected, retryHandles>>
       /\ UNCHANGED <<cmbVars, rmVars>>

\* execute_cancel(choice, recorder, processor, ui_callback): failAt is the
\* step that raises (0 when none does), errorFails tells whether
\* ui_callback('error', ...) raises as well
ExecuteCancelWith(choice, failAt, errorFails) ==
    LET plan == execute_plan(choice, is_recording)
        done == IF failAt = 0 THEN plan ELSE SubSeq(plan, 1, failAt - 1)
        did(s) == \E i \in 1..Len(done) : done[i] = s
    IN /\ failAt \in 0..Len(plan)
       /\ failAt # 0 => plan[failAt] \in MayRaise
       \* recorder.stop_recording()
       /\ IF did("stop_recording")
          THEN /\ is_recording' = FALSE
               /\ emitted' = IF current_chunk # <<>>
                             THEN Append(emitted, [id |-> chunk_id,
                                                   data |-> _combine_chunk_data(current_chunk),
                                                   d |-> now - chunk_start_time,
                                                   final |-> TRUE,
                                                   ov |-> 0])
                             ELSE emitted
               /\ nStops' = nStops + 1
          ELSE UNCHANGED <<is_recording, emitted, nStops>>
       \* processor.cancel_all_processing() or processor.cancel_flag = True
       /\ IF did("cancel_all_processing")
          THEN /\ cancel_flag' = TRUE
               /\ tasks' = [t \in 1..Len(tasks) |->
                               IF tasks[t].pc = "queued"
                               THEN [tasks[t] EXCEPT !.pc = "cancelled"] ELSE tasks[t]]
               /\ processing_chunks' = {}
               /\ cancelAllCalled' = TRUE
          ELSE /\ cancel_flag' = (cancel_flag \/ did("cancel_flag"))
               /\ UNCHANGED <<tasks, processing_chunks, cancelAllCalled>>
       \* except: ui_callback('error', str(e)); finally: is_cancelling = False
       /\ is_cancelling' = FALSE
       /\ pending' = ""
       /\ ch_last' = [NoCall EXCEPT !.op = "execute_cancel",
                                    !.choice = choice,
                                    !.steps = IF failAt # 0 /\ ~errorFails
                                              THEN Append(done, "ui:error") ELSE done,
                                    !.failed = IF failAt = 0 THEN "" ELSE plan[failAt],
                                    !.raised = (failAt # 0 /\ errorFails),
                                    !.wasRecording = is_recording,
                                    !.wasCancelling = is_cancelling]
       /\ UNCHANGED <<chunk_id, chunk_start_time, recording_start_time, current_chunk,
                      recent_audio, now, submitted, lastAdd, nBlocks, nStarts>>
       /\ UNCHANGED <<format_enabled, retry_manager, chunk_results, chunks_deleted,
                      objs, rejected, retryHandles>>
       /\ UNCHANGED <<cmbVars, rmVars>>

\* the choices the host may execute: the one request_cancel returned, or abort
Executable == IF pending = "" THEN {"cancel"} ELSE {pending, "cancel"}

\* execute_cancel with collaborators that return normally
ExecuteCancel ==
    \E choice \in Executable : ExecuteCancelWith(choice, 0, FALSE)

\* execute_cancel with a collaborator call that raises
ExecuteCancelFailing ==
    \E choice \in Executable, failAt \in 1..Len(execute_plan("discard", TRUE)), errorFails \in BOOLEAN :
        ExecuteCancelWith(choice, failAt, errorFails)

Init == InitRec /\ InitComb /\ InitProc /\ InitRetry /\ InitCancel

\* a processor built with any choice of format_enabled and retry_manager
InitConfigured ==
    /\ InitRec /\ InitComb /\ InitRetry /\ InitCancel
    /\ \E fmt \in BOOLEAN, rm \in BOOLEAN : InitProcWith(fmt, rm)

NextRec ==
    \/ Tick
    \/ StartRecording
    \/ StopRecording
    \/ AddAudioDataIdle
    \/ AddAudioData

SpecRec == Init /\ [][NextRec]_vars

\* check_chunk_boundary applied to a duration and a ring
NextBoundary == CheckChunkBoundary

InitBoundary ==
    /\ InitRecBoundary /\ InitComb /\ InitProc /\ InitRetry /\ InitCancel

SpecBoundary == InitBoundary /\ [][NextBoundary]_vars

\* _finalize_current_chunk applied to a buffer and an elapsed duration
NextFinalize == FinalizeCurrentChunk

InitFinalize ==
    /\ InitRecFinalize /\ InitComb /\ InitProc /\ InitRetry /\ InitCancel

SpecFinalize == InitFinalize /\ [][NextFinalize]_vars

\* test_chunk_creation
NextTest ==
    \/ TestAddSecond
    \/ TestStop

InitTest ==
    /\ InitRecTest /\ InitComb /\ InitProc /\ InitRetry /\ InitCancel

SpecTest == InitTest /\ [][NextTest]_vars

NextComb == CombineResults

SpecComb == Init /\ [][NextComb]_vars

NextProc ==
    \/ \E id \in ChunkIds : ProcessChunk(id)
    \/ \E id \in ChunkIds : RetryChunk(id)
    \/ CancelAllProcessing
    \/ \E t \in 1..Len(tasks) : TaskStart(t)
    \/ \E t \in 1..Len(tasks) : AsrReturns(t)
    \/ \E t \in 1..Len(tasks) : AsrFails(t)
    \/ \E t \in 1..Len(tasks) : FormatReturns(t)
    \/ \E t \in 1..Len(tasks) : FormatFails(t)
    \/ \E t \in 1..Len(tasks) : HandlerStores(t)
    \/ \E t \in 1..Len(tasks) : HandlerCallsBack(t)

SpecProc == InitConfigured /\ [][NextProc]_vars

\* the processor with process_chunk running on the audio thread while the
\* main thread cancels and the workers run tasks
NextThreads ==
    \/ \E id \in ChunkIds : ProcessChunkBegin(id)
    \/ \E t \in 1..Len(tasks) : ProcessChunkStore(t)
    \/ CancelAllProcessing
    \/ \E t \in 1..Len(tasks) : TaskStart(t)
    \/ \E t \in 1..Len(tasks) : AsrReturns(t)
    \/ \E t \in 1..Len(tasks) : AsrFails(t)
    \/ \E t \in 1..Len(tasks) : FormatReturns(t)
    \/ \E t \in 1..Len(tasks) : FormatFails(t)
    \/ \E t \in 1..Len(tasks) : HandlerStores(t)
    \/ \E t \in 1..Len(tasks) : HandlerCallsBack(t)

SpecThreads == Init /\ [][NextThreads]_vars

\* a minute passes between two polls of the host
Wait ==
    /\ Tick
    /\ now' = now + 60
    /\ now' <= MaxWait

\* the RetryManager called from several threads
NextRetry ==
    \/ Wait
    \/ \E id \in ChunkIds, error \in ErrorTexts : ShouldRetry(id, error)
    \/ \E id \in ChunkIds, error \in ScheduledErrors : ScheduleRetryBegin(id, error)
    \/ \E k \in 1..Len(sched) : ScheduleRetryEnqueue(k)
    \/ GetReadyRetries
    \/ \E id \in ChunkIds : RemoveChunk(id)
    \/ CancelAllRetries

SpecRetry == Init /\ [][NextRetry]_vars

\* a processor with a RetryManager attached, polled by the host
InitFlow ==
    /\ InitRec /\ InitComb /\ InitRetry /\ InitCancel
    /\ \E fmt \in BOOLEAN : InitProcWith(fmt, TRUE)

NextFlow ==
    \/ Wait
    \/ \E id \in ChunkIds : ProcessChunk(id)
    \/ \E t \in 1..Len(tasks) : TaskStart(t)
    \/ \E t \in 1..Len(tasks) : AsrReturns(t)
    \/ \E t \in 1..Len(tasks) : AsrFails(t)
    \/ \E t \in 1..Len(tasks) : FormatReturns(t)
    \/ \E t \in 1..Len(tasks) : FormatFails(t)
    \/ \E t \in 1..Len(tasks) : HandlerStores(t)
    \/ \E t \in 1..Len(tasks) : HandlerCallsBack(t)
    \/ ProcessRetries

SpecFlow == InitFlow /\ [][NextFlow]_vars

\* the first block of a run handed to add_audio_data
FirstBlock ==
    /\ nBlocks = 0
    /\ AddAudioData

\* a recording session with its processor and the CancelHandler; the session
\* has one block in the recorder and one chunk in the processor
NextSession ==
    \/ StartRecording
    \/ FirstBlock
    \/ ProcessChunk(0)
    \/ \E t \in 1..Len(tasks) : TaskStart(t)
    \/ \E t \in 1..Len(tasks) : AsrReturns(t)
    \/ \E t \in 1..Len(tasks) : AsrFails(t)
    \/ \E t \in 1..Len(tasks) : FormatReturns(t)
    \/ \E t \in 1..Len(tasks) : FormatFails(t)
    \/ \E t \in 1..Len(tasks) : HandlerStores(t)
    \/ \E t \in 1..Len(tasks) : HandlerCallsBack(t)
    \/ \E show_dialog \in BOOLEAN, button \in Buttons : RequestCancel(show_dialog, button)

NextCancel ==
    \/ NextSession
    \/ ExecuteCancel

SpecCancel == Init /\ [][NextCancel]_vars

\* execute_cancel('save', recorder, processor, ui_callback)
ExecuteSave ==
    \E choice \in {"save"} : ExecuteCancelWith(choice, 0, FALSE)

\* a processor whose host submits chunk 0, calls retry_chunk and saves
NextSaveRetry ==
    \/ ProcessChunk(0)
    \/ \E id \in ChunkIds : RetryChunk(id)
    \/ ExecuteSave
    \/ \E t \in 1..Len(tasks) : TaskStart(t)
    \/ \E t \in 1..Len(tasks) : AsrReturns(t)
    \/ \E t \in 1..Len(tasks) : AsrFails(t)
    \/ \E t \in 1..Len(tasks) : FormatReturns(t)
    \/ \E t \in 1..Len(tasks) : FormatFails(t)
    \/ \E t \in 1..Len(tasks) : HandlerStores(t)
    \/ \E t \in 1..Len(tasks) : HandlerCallsBack(t)

SpecSaveRetry == Init /\ [][NextSaveRetry]_vars

NextCancelFailing ==
    \/ NextSession
    \/ ExecuteCancel
    \/ ExecuteCancelFailing

SpecCancelFailing == Init /\ [][NextCancelFailing]_vars

\* ------------------------------------------------------------------------
\* Claims about the recorder (checked under SpecRec)
\* ------------------------------------------------------------------------
\* the emitted chunks joined, each without the 2 * ov samples that repeat the
\* overlap of the chunk before it
RECURSIVE Reassemble(_, _)
Reassemble(chunks, prevOv) ==
    IF chunks = <<>> THEN <<>>
    ELSE PySlice(Head(chunks).data, 2 * prevOv, Len(Head(chunks).data))
         \o Reassemble(Tail(chunks), Head(chunks).ov)

\* the chunk stop_recording would return now
OpenChunk ==
    IF current_chunk = <<>> THEN <<>>
    ELSE <<[id |-> chunk_id, data |-> _combine_chunk_data(current_chunk),
            d |-> now - chunk_start_time, final |-> TRUE, ov |-> 0]>>

\* C1: the chunks returned by add_audio_data followed by the final chunk of
\* stop_recording, overlap removed, are exactly the submitted samples in
\* order; while the session is still recording the same holds with the open
\* buffer standing for the final chunk.
C1_NoSampleLostOrInvented ==
    /\ (nStarts > 0 /\ ~is_recording /\ nStops = 1)
          => Reassemble(emitted, 0) = submitted
    /\ is_recording
          => Reassemble(emitted \o OpenChunk, 0) = submitted

C1_Witness ==
    /\ nStarts > 0 /\ ~is_recording /\ nStops = 1
    /\ Len(emitted) >= 2
    /\ ~emitted[1].final
    /\ emitted[Len(emitted)].final
    /\ Len(submitted) > Len(emitted[1].data)

\* C2: a chunk returned by add_audio_data is returned at an elapsed duration
\* of at least MIN_CHUNK_DURATION, and an add_audio_data call that sees an
\* elapsed duration of MAX_CHUNK_DURATION or more always returns the chunk.
C2_ChunkDurationBounds ==
    /\ \A i \in 1..Len(emitted) :
          ~emitted[i].final => emitted[i].d >= MIN_CHUNK_DURATION
    /\ (lastAdd.called /\ lastAdd.recording /\ lastAdd.d >= MAX_CHUNK_DURATION)
          => lastAdd.returned

C2_Witness ==
    /\ lastAdd.called /\ lastAdd.recording /\ lastAdd.returned
    /\ lastAdd.d >= MAX_CHUNK_DURATION
    /\ \E i \in 1..Len(emitted) : ~emitted[i].final /\ emitted[i].d < MAX_CHUNK_DURATION

\* C3: within one session the ids of the emitted chunks start at 0 and are
\* strictly increasing in emission order, however often stop_recording is
\* called.
C3_ChunkIdsStrictlyIncreasing ==
    /\ emitted # <<>> => emitted[1].id = 0
    /\ \A i, j \in 1..Len(emitted) : i < j => emitted[i].id < emitted[j].id

\* ------------------------------------------------------------------------
\* Claims about combine_results (checked under SpecComb)
\* ------------------------------------------------------------------------
\* C4: combine_results returns for every ordering of a results list what it
\* returns for the list sorted by chunk_id.
C4_CombineOrderInvariant ==
    cmb_called => cmb_out = combine_results(SortById(cmb_in))

\* number of places where text o occurs in text s
CountOcc(o, s) ==
    Cardinality({i \in 1..(Len(s) - Len(o) + 1) : SubSeq(s, i, i + Len(o) - 1) = o})

\* text1 ends with the OverlapLen characters text2 begins with
SharesOverlap(text1, text2) ==
    /\ Len(text1) >= OverlapLen /\ Len(text2) >= OverlapLen
    /\ PyLast(text1, OverlapLen) = PySlice(text2, 0, OverlapLen)

\* the latest call combined two adjacent completed chunks
AdjacentCompletedPair ==
    /\ cmb_called
    /\ Len(cmb_in) = 2
    /\ cmb_in[1].status = COMPLETED /\ cmb_in[2].status = COMPLETED
    /\ cmb_in[2].chunk_id = cmb_in[1].chunk_id + 1

\* C5 as stated: two adjacent completed chunks whose texts share a 20-character
\* overlap combine into an output that contains the overlapping text exactly
\* once.
C5_SharedOverlapOnce ==
    AdjacentCompletedPair =>
        /\ SharesOverlap(cmb_in[1].raw_text, cmb_in[2].raw_text)
              => CountOcc(PyLast(cmb_in[1].raw_text, OverlapLen), cmb_out.raw) = 1
        /\ SharesOverlap(cmb_in[1].formatted_text, cmb_in[2].formatted_text)
              => CountOcc(PyLast(cmb_in[1].formatted_text, OverlapLen), cmb_out.formatted) = 1

\* text1 and text2 are long enough for a window of OverlapLen characters and
\* hold the shared text once each
WindowCovers(text1, text2) ==
    /\ SharesOverlap(text1, text2)
    /\ Len(text1) >= 10 * OverlapLen /\ Len(text2) >= 10 * OverlapLen
    /\ CountOcc(PyLast(text1, OverlapLen), text1) = 1
    /\ CountOcc(PyLast(text1, OverlapLen), text2) = 1

\* C5 amended: when both texts are at least 200 characters long, so that the
\* search window min(len1 // 10, len2 // 10, 50) reaches 20, the combined
\* output contains the shared 20 characters exactly once.
C5_SharedOverlapOnceWithinWindow ==
    AdjacentCompletedPair =>
        /\ WindowCovers(cmb_in[1].raw_text, cmb_in[2].raw_text)
              => CountOcc(PyLast(cmb_in[1].raw_text, OverlapLen), cmb_out.raw) = 1
        /\ WindowCovers(cmb_in[1].formatted_text, cmb_in[2].formatted_text)
              => CountOcc(PyLast(cmb_in[1].formatted_text, OverlapLen), cmb_out.formatted) = 1

C5_Witness ==
    /\ AdjacentCompletedPair
    /\ WindowCovers(cmb_in[1].raw_text, cmb_in[2].raw_text)
    /\ WindowCovers(cmb_in[1].formatted_text, cmb_in[2].formatted_text)
    /\ Len(cmb_out.raw) = Len(cmb_in[1].raw_text) + Len(cmb_in[2].raw_text) - OverlapLen

\* ------------------------------------------------------------------------
\* Claims about the ChunkProcessor (checked under SpecProc)
\* ------------------------------------------------------------------------
\* C6: once cancel_all_processing has been called, no later step submits
\* anything: a process_chunk call, for whatever chunk id, is rejected and
\* leaves chunk_results, processing_chunks, the ChunkResult objects and the
\* task queue as they were, and the cancel flag stays set for good.
C6_RejectedAfterCancelAll ==
    [][cancelAllCalled =>
          /\ cancel_flag'
          /\ Len(tasks') = Len(tasks)
          /\ Len(objs') = Len(objs)
          /\ processing_chunks' \subseteq processing_chunks
          /\ rejected' # rejected =>
                UNCHANGED <<chunk_results, processing_chunks, objs, tasks>>]_vars

C6_Witness ==
    /\ cancelAllCalled
    /\ \E id \in rejected : chunk_results[id] = 0
    /\ \E id \in rejected : chunk_results[id] # 0

\* C7: retry_chunk returns a handle at most once for a chunk id.
C7_RetryAtMostOnce ==
    \A id \in ChunkIds : retryHandles[id] <= 1

\* the callbacks made for chunk id over all its tasks
CallbacksOf(id, kind) ==
    {<<t, k>> \in (1..Len(tasks)) \X (1..2) :
        /\ tasks[t].chunk_id = id
        /\ k <= Len(tasks[t].cb)
        /\ tasks[t].cb[k].kind = kind}

\* C8: no chunk has a callback fired twice or both callbacks fired, and a
\* task whose done-callback has run fired on_chunk_completed exactly when it
\* ended completed and on_chunk_error exactly when it ended in error, the
\* latter followed by schedule_retry with the error text when a RetryManager
\* is attached.
C8_CallbackExactlyOnce ==
    /\ \A id \in ChunkIds :
          Cardinality(CallbacksOf(id, "on_chunk_completed"))
            + Cardinality(CallbacksOf(id, "on_chunk_error")) <= 1
    /\ \A t \in 1..Len(tasks) :
          tasks[t].pc = "done" =>
             tasks[t].cb =
                IF tasks[t].out = COMPLETED
                THEN <<[kind |-> "on_chunk_completed", error |-> ""]>>
                ELSE IF tasks[t].out = ERROR
                THEN <<[kind |-> "on_chunk_error", error |-> tasks[t].failure]>>
                     \o (IF retry_manager
                         THEN <<[kind |-> "schedule_retry", error |-> tasks[t].failure]>>
                         ELSE <<>>)
                ELSE <<>>

\* C9: a task that found the cancel flag set before the ASR call, after the
\* ASR call or after the Formatter call ends cancelled and fires no callback.
C9_CancelSampledThreeTimes ==
    \A t \in 1..Len(tasks) :
        (tasks[t].sawCancel /\ tasks[t].pc \in {"returned", "stored", "done"})
            => /\ tasks[t].out = CANCELLED
               /\ tasks[t].cb = <<>>

\* the collaborator call of task t raises in this step
FailsNow(t) ==
    /\ t <= Len(tasks)
    /\ tasks[t].pc \in {"asr", "fmt"}
    /\ tasks'[t].failure # ""

\* C10: a failure of the ASR or Formatter call stays in its task: the task
\* returns normally, never unwinding, its ChunkResult gets status error and the
\* failure text in error, and every other task, every other ChunkResult and
\* the processor's own state are untouched by the failure.
C10_FailureContained ==
    [][/\ \A t \in 1..Len(tasks) :
             FailsNow(t) =>
                /\ tasks'[t].pc = "returned"
                /\ tasks'[t].out = ERROR
                /\ objs'[tasks[t].res].status = ERROR
                /\ objs'[tasks[t].res].error = tasks'[t].failure
                /\ \A u \in 1..Len(tasks) : u # t => tasks'[u] = tasks[u]
                /\ \A o \in 1..Len(objs) : o # tasks[t].res => objs'[o] = objs[o]
                /\ UNCHANGED <<cancel_flag, chunk_results, processing_chunks>>
       /\ \A t \in 1..Len(tasks') : tasks'[t].pc # "raised"]_vars

C10_Witness ==
    \E t, u \in 1..Len(tasks) :
        /\ t < u
        /\ tasks[t].chunk_id # tasks[u].chunk_id
        /\ tasks[t].failure \in FormatFailures /\ tasks[t].pc = "done"
        /\ objs[tasks[t].res].status = ERROR
        /\ objs[tasks[t].res].error = tasks[t].failure
        /\ tasks[u].out = COMPLETED /\ tasks[u].pc = "done"
        /\ tasks[u].cb # <<>>

\* a task that has been submitted and whose _process_chunk_task has not
\* returned yet
InFlight(t) == tasks[t].pc \in {"queued", "asr", "fmt"}

\* C11: every chunk id has one live ChunkResult that a single worker task
\* mutates: no two tasks of one chunk id are in flight together, and the
\* record a running task works on is the one chunk_results holds for its id.
C11_SingleWriter ==
    /\ \A t, u \in 1..Len(tasks) :
          (t # u /\ tasks[t].chunk_id = tasks[u].chunk_id)
             => ~(InFlight(t) /\ InFlight(u))
    /\ \A t \in 1..Len(tasks) :
          tasks[t].pc \in {"asr", "fmt"}
             => chunk_results[tasks[t].chunk_id] = tasks[t].res

\* ------------------------------------------------------------------------
\* Claims about the CancelHandler (checked under SpecCancel and
\* SpecCancelFailing)
\* ------------------------------------------------------------------------
\* C12: once execute_cancel('save') has set the cancel flag (and nothing was
\* discarded), no submission is accepted any more, no task of a chunk
\* submitted before ends cancelled, and a task whose done-callback has run
\* fired its callback.
C12_SaveLetsSubmittedFinish ==
    [][(cancel_flag /\ ~cancelAllCalled /\ ~cancelAllCalled') =>
          /\ Len(tasks') = Len(tasks)
          /\ \A t \in 1..Len(tasks') :
                /\ tasks'[t].out # CANCELLED
                /\ tasks'[t].pc # "cancelled"
                /\ tasks'[t].pc = "done" => tasks'[t].cb # <<>>]_vars

\* the place of step s in the steps of an execute_cancel call, 0 when absent
StepAt(steps, s) ==
    IF \E i \in 1..Len(steps) : steps[i] = s
    THEN CHOOSE i \in 1..Len(steps) : steps[i] = s
    ELSE 0

\* C13: execute_cancel('discard', ...) stops the recorder when it is
\* recording, then calls cancel_all_processing, then signals 'clear_all'; when
\* it ends the recorder is not recording, the processor rejects new work and
\* holds no audio, and is_cancelling is false.
C13_DiscardSequence ==
    [][(pending # "" /\ pending' = "" /\ ch_last'.choice = "discard") =>
          LET steps == ch_last'.steps
          IN /\ is_recording => StepAt(steps, "stop_recording") # 0
             /\ StepAt(steps, "stop_recording") < StepAt(steps, "cancel_all_processing")
             /\ StepAt(steps, "cancel_all_processing") < StepAt(steps, "ui:clear_all")
             /\ ~is_recording'
             /\ ~process_chunk_accepts(cancel_flag')
             /\ processing_chunks' = {}
             /\ \A t \in 1..Len(tasks') : tasks'[t].pc # "queued"
             /\ ~is_cancelling']_vars

C13_Witness ==
    /\ ch_last.op = "execute_cancel"
    /\ ch_last.choice = "discard"
    /\ ch_last.wasRecording
    /\ emitted # <<>>
    /\ Len(tasks) = 1 /\ tasks[1].pc = "cancelled"

\* C14: execute_cancel('cancel', ...) sets is_cancelling to false and does
\* nothing else: no step is run, no callback or signal is made, and the
\* recorder, the processor and the RetryManager are as they were.
C14_AbortNoSideEffects ==
    [][(ch_last' # ch_last /\ ch_last'.op = "execute_cancel"
        /\ ch_last'.choice = "cancel") =>
          /\ ~is_cancelling'
          /\ ch_last'.steps = <<>>
          /\ ~ch_last'.raised
          /\ UNCHANGED <<recVars, cmbVars, procVars, rmVars>>]_vars

C14_Witness ==
    /\ ch_last.op = "execute_cancel"
    /\ ch_last.choice = "cancel"
    /\ ch_last.wasCancelling
    /\ is_recording /\ current_chunk # <<>>
    /\ ~cancel_flag
    /\ Len(tasks) = 1 /\ tasks[1].pc = "asr"

\* C15: while a cancellation is in progress (request_cancel has returned save,
\* discard or force and no execute_cancel has ended since), request_cancel
\* returns 'cancel' without a dialog and without a signal and changes nothing.
C15_ReentrantRequestRejected ==
    [][(pending # "" /\ ch_last' # ch_last /\ ch_last'.op = "request_cancel") =>
          /\ ch_last'.choice = "cancel"
          /\ ~ch_last'.dialog
          /\ ~ch_last'.emitted
          /\ UNCHANGED <<is_cancelling, pending>>
          /\ UNCHANGED <<recVars, cmbVars, procVars, rmVars>>]_vars

C15_Witness ==
    /\ ch_last.op = "request_cancel"
    /\ ch_last.wasCancelling
    /\ ch_last.show_dialog
    /\ ch_last.choice = "cancel"
    /\ pending = "discard"
    /\ is_cancelling

\* C16: when a step of execute_cancel raises, the failure is reported through
\* ui_callback('error', ...) and nothing is raised to the caller, and after
\* every execute_cancel, failed or not, is_cancelling is false.
C16_FailureReportedNotRaised ==
    ch_last.op = "execute_cancel" =>
        /\ ~is_cancelling
        /\ ch_last.failed # "" =>
              /\ ~ch_last.raised
              /\ ch_last.steps # <<>>
              /\ ch_last.steps[Len(ch_last.steps)] = "ui:error"

\* ------------------------------------------------------------------------
\* Claims about the retries (checked under SpecFlow and SpecRetry)
\* ------------------------------------------------------------------------
\* C17: with a RetryManager attached and no cancellation, a chunk whose task
\* ended in error with a retryable text is re-submitted by the process_retries
\* poll that finds its delay elapsed: every chunk id the poll takes from the
\* queue is in the list it returns.
C17_ReadyRetryResubmitted ==
    (rm_last.op = "process_retries" /\ ~cancel_flag) =>
        \A i \in 1..Len(rm_last.ready) :
            \E j \in 1..Len(rm_last.returned) :
                rm_last.returned[j] = rm_last.ready[i]

\* C18 as claimed: for a chunk without attempts and the text 'Network
\* timeout', two successive should_retry calls answer true and then false.
C18_TrueThenFalse ==
    (/\ rm_last.op = "should_retry"
     /\ rm_last.error = "Network timeout"
     /\ retry_counts[rm_last.chunk_id] = 0
     /\ Len(should_run) = 2)
        => should_run = <<TRUE, FALSE>>

\* C18 as amended: for the text 'Network timeout' should_retry answers true
\* exactly while the chunk has no attempt counted, so successive calls give
\* the same answer, and it answers false once schedule_retry has enqueued the
\* chunk.
C18_TrueUntilScheduled ==
    (rm_last.op = "should_retry" /\ rm_last.error = "Network timeout") =>
        /\ rm_last.answer = (retry_counts[rm_last.chunk_id] = 0)
        /\ Len(should_run) = 2 => should_run[1] = should_run[2]

C18_Witness ==
    /\ rm_last.op = "should_retry"
    /\ rm_last.error = "Network timeout"
    /\ ~rm_last.answer
    /\ retry_counts[rm_last.chunk_id] = 1
    /\ \E i \in 1..Len(retry_queue) : retry_queue[i].chunk_id = rm_last.chunk_id

\* the error texts whose policy is not to retry
IsTerminal(error) ==
    /\ error \in AllErrorTexts
    /\ ConfigOf[error].strategy = NO_RETRY

\* C19: for an error text classified as authentication or API key, whatever
\* the chunk id and the history, should_retry answers false, and
\* schedule_retry returns nothing and leaves retry_queue and retry_counts as
\* they were.
C19_TerminalNeverEnqueued ==
    [][IsTerminal(rm_last'.error) =>
          /\ rm_last'.op = "should_retry" => ~rm_last'.answer
          /\ rm_last'.op = "schedule_retry" =>
                /\ rm_last'.returned = <<>>
                /\ UNCHANGED <<retry_queue, retry_counts>>]_vars

C19_Witness ==
    /\ rm_last.op = "schedule_retry"
    /\ rm_last.error = "Authentication failed"
    /\ rm_last.returned = <<>>
    /\ retry_counts[rm_last.chunk_id] = 1
    /\ retry_queue # <<>>

\* the pattern of ERROR_RETRY_CONFIG that is found first in the text, letter
\* case ignored, "default" when none is
MatchedPattern(error) ==
    LET lowered == [k \in 1..Len(ERROR_RETRY_CONFIG) |->
                       [ERROR_RETRY_CONFIG[k] EXCEPT !.pattern = lower(@)]]
        k == FirstMatch(lowered, lower(Chars(error)), 1)
    IN IF k = 0 THEN Chars("default") ELSE ERROR_RETRY_CONFIG[k].pattern

PatternOf == [error \in AllErrorTexts |-> MatchedPattern(error)]

\* the policy of a config: attempts, delay, and whether it retries at all
Policy(config) ==
    [max_retries |-> config.max_retries,
     delay |-> _calculate_delay(config, 0),
     retries |-> config.strategy # NO_RETRY]

\* C20 as claimed: the first pattern found decides; a network or timeout
\* phrase gives an immediate retry with 1 attempt, a rate-limit phrase 1
\* attempt after 60 s, an authentication or API-key phrase no retry, and a text
\* with no pattern 1 attempt after 10 s.
C20_ClassifiedByPhrase ==
    rm_last.op = "should_retry" =>
        LET phrase == PatternOf[rm_last.error]
            policy == Policy(ConfigOf[rm_last.error])
        IN /\ phrase \in {Chars("Network timeout"), Chars("Connection timed out"),
                          Chars("Network error")}
                => policy = [max_retries |-> 1, delay |-> 0, retries |-> TRUE]
           /\ phrase \in {Chars("Rate limit"), Chars("API rate limit")}
                => policy = [max_retries |-> 1, delay |-> 60, retries |-> TRUE]
           /\ phrase \in {Chars("Authentication"), Chars("API key")}
                => (policy.max_retries = 0 /\ ~policy.retries)
           /\ phrase = Chars("default")
                => policy = [max_retries |-> 1, delay |-> 10, retries |-> TRUE]

\* C20 as amended: as claimed, except that of the network phrases only
\* 'Network timeout' and 'Connection timed out' give an immediate retry;
\* 'Network error' gives 1 attempt after 5 s.
C20_ClassifiedByPattern ==
    rm_last.op = "should_retry" =>
        LET phrase == PatternOf[rm_last.error]
            policy == Policy(ConfigOf[rm_last.error])
        IN /\ phrase \in {Chars("Network timeout"), Chars("Connection timed out")}
                => policy = [max_retries |-> 1, delay |-> 0, retries |-> TRUE]
           /\ phrase = Chars("Network error")
                => policy = [max_retries |-> 1, delay |-> 5, retries |-> TRUE]
           /\ phrase \in {Chars("Rate limit"), Chars("API rate limit")}
                => policy = [max_retries |-> 1, delay |-> 60, retries |-> TRUE]
           /\ phrase \in {Chars("Authentication"), Chars("API key")}
                => (policy.max_retries = 0 /\ ~policy.retries)
           /\ phrase = Chars("default")
                => policy = [max_retries |-> 1, delay |-> 10, retries |-> TRUE]

C20_Witness ==
    /\ rm_last.op = "should_retry"
    /\ rm_last.error = "Network error"
    /\ rm_last.answer
    /\ retry_queue # <<>>

\* ------------------------------------------------------------------------
\* Claims about the RetryManager called from several threads (SpecRetry)
\* ------------------------------------------------------------------------
\* the number of queue entries of a chunk
EntriesOf(queue, id) == Len(SelectSeq(queue, LAMBDA e : e.chunk_id = id))

\* C21: under any interleaving of schedule_retry, get_ready_retries,
\* remove_chunk and cancel_all_retries the queue and the attempt counts behave
\* as under one lock: every step that enqueues a chunk counts exactly one more
\* attempt for it, and the count it reaches is within the policy maximum of
\* the error; so a chunk is enqueued at most as often as its policy allows
\* and its count is the number of enqueues since its last removal.
C21_AsIfUnderOneLock ==
    [][\A id \in ChunkIds :
          EntriesOf(retry_queue', id) > EntriesOf(retry_queue, id) =>
              /\ retry_counts'[id] = retry_counts[id] + 1
              /\ retry_counts'[id] <= ConfigOf[rm_last'.error].max_retries]_vars

C23_RetryCountCarried ==
    [][\A id \in ChunkIds :
          /\ retryHandles'[id] > retryHandles[id] =>
                objs'[chunk_results'[id]].retry_count =
                    objs[chunk_results[id]].retry_count + 1
          /\ (retryHandles[id] > 0 /\ chunk_results'[id] # 0) =>
                objs'[chunk_results'[id]].retry_count >=
                    objs[chunk_results[id]].retry_count]_vars

\* the chunk has reached the status completed: its stored result is completed
\* and no task of the chunk is still queued, running or in its done-callback
ReachedCompleted(id) ==
    /\ chunk_results[id] # 0
    /\ objs[chunk_results[id]].status = COMPLETED
    /\ \A t \in 1..Len(tasks) :
          tasks[t].chunk_id = id => tasks[t].pc \in {"done", "cancelled"}

\* C24: the RetryManager drops a chunk's tracking when the chunk succeeds:
\* for a chunk that has reached the status completed it holds no queue entry
\* and no attempt count.
C24_TrackingDroppedOnSuccess ==
    \A id \in ChunkIds :
        ReachedCompleted(id) =>
            /\ EntriesOf(retry_queue, id) = 0
            /\ retry_counts[id] = 0

\* C25: the audio of a chunk is held only from its submission until its
\* terminal result is recorded: once the completion handler of a task of the
\* chunk has run, processing_chunks has no entry for the chunk, and once
\* cancel_all_processing has run it has no entry at all, whatever the
\* interleaving of the audio thread, the main thread and the workers.
C25_AudioReleased ==
    /\ \A t \in 1..Len(tasks) :
          tasks[t].pc = "done" => tasks[t].chunk_id \notin processing_chunks
    /\ cancelAllCalled => processing_chunks = {}

\* ------------------------------------------------------------------------
\* Further claims about combine_results (SpecComb)
\* ------------------------------------------------------------------------
\* a combined text without its line breaks
Unbroken(text) == SelectSeq(text, LAMBDA c : c # NEWLINE)

\* what the chunks of a list contribute, one after the other: the placeholder
\* for an error chunk, its text for a completed chunk, nothing for the others
RECURSIVE Rendered(_, _)
Rendered(results, formatted) ==
    IF results = <<>> THEN <<>>
    ELSE LET result == Head(results)
             piece == IF result.status = ERROR THEN error_text
                      ELSE IF result.status = COMPLETED
                      THEN (IF formatted THEN result.formatted_text ELSE result.raw_text)
                      ELSE <<>>
         IN piece \o Rendered(Tail(results), formatted)

\* C26: for chunks with texts too short to overlap, both outputs of
\* combine_results are, line breaks aside, the contributions of the chunks in
\* the order of their chunk ids: the placeholder once for each error chunk at
\* the place of its id, the text of each completed chunk, and nothing for a
\* chunk that is pending, processing or cancelled.
C26_ErrorPlaceholderInPlace ==
    (cmb_called /\ \A i \in 1..Len(cmb_in) : Len(cmb_in[i].raw_text) <= 1) =>
        /\ Unbroken(cmb_out.raw) = Rendered(SortById(cmb_in), FALSE)
        /\ Unbroken(cmb_out.formatted) = Rendered(SortById(cmb_in), TRUE)

\* the longest text of 6 to min(10% of prev, 10% of cur, 50) characters that
\* ends prev and begins cur: its length, 0 when there is none
LongestShared(prev, cur) ==
    LET limit == Min(Min(Len(prev) \div 10, Len(cur) \div 10), 50)
        shared == {k \in 6..limit : PyLast(prev, k) = PySlice(cur, 0, k)}
    IN IF shared = {} THEN 0
       ELSE CHOOSE k \in shared : \A j \in shared : j <= k

\* the texts joined, each without the prefix it shares with the text of the
\* chunk right before it
RECURSIVE JoinedPairwise(_, _)
JoinedPairwise(texts, i) ==
    IF i > Len(texts) THEN <<>>
    ELSE (IF i = 1 THEN texts[1]
          ELSE PySlice(texts[i], LongestShared(texts[i - 1], texts[i]), Len(texts[i])))
         \o JoinedPairwise(texts, i + 1)

\* the latest call combined completed chunks in the order of their ids, each
\* with a raw and a formatted text
CompletedRun ==
    /\ cmb_called
    /\ Len(cmb_in) >= 2
    /\ \A i \in 1..Len(cmb_in) :
          /\ cmb_in[i].status = COMPLETED
          /\ cmb_in[i].chunk_id = cmb_in[1].chunk_id + i - 1
          /\ cmb_in[i].raw_text # <<>> /\ cmb_in[i].formatted_text # <<>>

\* C27: for each adjacent pair of completed chunks combine_results drops from
\* the later text the longest text of 6 to min(10% of the preceding chunk's
\* text, 10% of the later text, 50) characters that ends the preceding chunk's
\* text and begins the later one, and drops nothing when there is none.
C27_LongestSharedDropped ==
    CompletedRun =>
        /\ cmb_out.raw =
              JoinedPairwise([i \in 1..Len(cmb_in) |-> cmb_in[i].raw_text], 1)
        /\ cmb_out.formatted =
              JoinedPairwise([i \in 1..Len(cmb_in) |-> cmb_in[i].formatted_text], 1)

\* ------------------------------------------------------------------------
\* Further claims about the recorder (SpecBoundary and SpecRec)
\* ------------------------------------------------------------------------
\* the decision of the claim for duration d and ring ra, with the given
\* language overlap in tenths of a second
DecidesToSplit(d, ra, language_overlap) ==
    IF d < MIN_CHUNK_DURATION THEN FALSE
    ELSE IF d >= MAX_CHUNK_DURATION THEN TRUE
    ELSE \/ /\ d >= SILENCE_CHECK_START
            /\ detect_silence(ra, MIN_SILENCE_DURATION + language_overlap)
         \/ /\ d >= PRIORITY_SPLIT_TIME
            /\ detect_silence(ra, SHORT_SILENCE_DURATION)

\* C28 as claimed: check_chunk_boundary never splits below 60 s, always
\* splits from 120 s on, and in between splits when from 90 s on the trailing
\* 1.5 s + language_overlap of the ring is silent, language_overlap being the
\* lookup's default of 0.6 s, or when from 110 s on the trailing 0.5 s is.
C28_SplitByDefaultOverlap ==
    lastAdd.called =>
        lastAdd.returned = DecidesToSplit(lastAdd.d, recent_audio, 6)

\* C28 as amended: the same decision, with language_overlap the lookup value
\* of "ja", 0.8 s, so that the long test asks for 2.3 s of silence.
C28_SplitByJaOverlap ==
    lastAdd.called =>
        lastAdd.returned = DecidesToSplit(lastAdd.d, recent_audio, 8)

C28_Witness ==
    /\ lastAdd.called /\ ~lastAdd.returned
    /\ lastAdd.d >= SILENCE_CHECK_START /\ lastAdd.d < PRIORITY_SPLIT_TIME
    /\ detect_silence(recent_audio, MIN_SILENCE_DURATION + 6)
    /\ ~detect_silence(recent_audio, MIN_SILENCE_DURATION + 8)

\* C29: start_recording resets the whole session state: in a session that
\* has been started and has not yet received a block, the chunk id is 0, the
\* in-progress buffer is empty and the ring buffer holds no sample, those of
\* an earlier session included.
C29_StartResetsSession ==
    (nStarts > 0 /\ is_recording /\ submitted = <<>>) =>
        /\ chunk_id = 0
        /\ current_chunk = <<>>
        /\ chunk_start_time = recording_start_time
        /\ recent_audio = <<>>

\* C30: a stop_recording call leaves the recorder not recording; when the
\* in-progress buffer is non-empty it returns one final chunk that carries
\* the current chunk id and all samples of the buffer, however short the
\* elapsed duration, and when the buffer is empty it returns nothing.
C30_StopFlushesRemainder ==
    [][nStops' = nStops + 1 =>
          /\ ~is_recording'
          /\ IF current_chunk # <<>>
             THEN /\ Len(emitted') = Len(emitted) + 1
                  /\ SubSeq(emitted', 1, Len(emitted)) = emitted
                  /\ emitted'[Len(emitted')].final
                  /\ emitted'[Len(emitted')].id = chunk_id
                  /\ emitted'[Len(emitted')].data = Flatten(current_chunk)
             ELSE emitted' = emitted]_vars

C30_Witness ==
    /\ nStarts > 0 /\ ~is_recording /\ nStops = 1
    /\ emitted # <<>>
    /\ emitted[Len(emitted)].final
    /\ emitted[Len(emitted)].d < MIN_CHUNK_DURATION
    /\ emitted[Len(emitted)].data # <<>>

\* ------------------------------------------------------------------------
\* Claims C31 .. C40
\* ------------------------------------------------------------------------

\* the samples a finalized chunk carries beyond its split point
AppendedOverlap(e) == SubSeq(e.data, Len(e.data) - e.ov + 1, Len(e.data))

C32_TestChunkCreation ==
    (nBlocks = TestSeconds /\ nStops = 1) =>
        /\ Len(emitted) >= 2
        /\ ~emitted[1].final
        /\ emitted[1].d >= MIN_CHUNK_DURATION
        /\ emitted[1].d <= MAX_CHUNK_DURATION

\* the test has stopped after a first chunk closed by silence
C32_Witness ==
    /\ nBlocks = TestSeconds /\ nStops = 1
    /\ Len(emitted) = 2
    /\ emitted[1].d < MAX_CHUNK_DURATION
    /\ emitted[2].final

\* C33: every chunk returned by add_audio_data is returned at an elapsed
\* duration of SILENCE_CHECK_START or more, where _find_optimal_split_point
\* takes its first return and gives the buffer length: the chunk is the whole
\* in-progress buffer, the block just handed in included, no overlap is
\* appended and the next buffer is empty.
C33_EmittedFromCheckStartWholeBuffer ==
    [][(Len(emitted') = Len(emitted) + 1 /\ ~emitted'[Len(emitted')].final) =>
          LET e == emitted'[Len(emitted')] IN
          /\ e.d >= SILENCE_CHECK_START
          /\ _find_optimal_split_point(e.data, e.d) = Len(e.data)
          /\ e.data = _combine_chunk_data(current_chunk)
                          \o SubSeq(submitted', Len(submitted) + 1, Len(submitted'))
          /\ e.ov = 0
          /\ current_chunk' = <<>>]_vars

\* add_audio_data has just returned, before the cap, a chunk longer than the
\* two seconds at which the search for a split point would start
C33_Witness ==
    /\ lastAdd.called /\ lastAdd.recording /\ lastAdd.returned
    /\ lastAdd.d < MAX_CHUNK_DURATION
    /\ emitted # <<>>
    /\ ~emitted[Len(emitted)].final
    /\ Len(emitted[Len(emitted)].data) > 2 * sample_rate
    /\ current_chunk = <<>>

\* C34: once cancel_all_retries has made the RetryManager inactive it stays
\* inactive, and every get_ready_retries from then on returns the empty list,
\* whatever schedule_retry has enqueued in the meantime.
C34_InactiveForGood ==
    [][~is_active =>
          /\ ~is_active'
          /\ rm_last'.op = "get_ready_retries" => rm_last'.returned = <<>>]_vars

\* after cancel_all_retries schedule_retry has enqueued an entry, its time
\* has come, and get_ready_retries has returned nothing and left it queued
C34_Witness ==
    /\ ~is_active
    /\ rm_last.op = "get_ready_retries"
    /\ rm_last.returned = <<>>
    /\ \E i \in 1..Len(retry_queue) : retry_queue[i].retry_time <= now

\* C35: a task that is queued when cancel_all_processing runs is cancelled
\* there and then and never runs: from then on the task does not change, it
\* has read no result and called neither on_chunk_completed nor
\* on_chunk_error, and the ChunkResult stored at its submission (the t-th
\* submission stores the t-th result) has status pending.
C35_QueuedCancelledStaysPending ==
    [][\A t \in 1..Len(tasks) :
          /\ (tasks[t].pc = "queued" /\ cancel_flag') => tasks'[t].pc = "cancelled"
          /\ tasks[t].pc = "cancelled" => tasks'[t] = tasks[t]
          /\ tasks'[t].pc = "cancelled" =>
                /\ tasks'[t].res = 0
                /\ tasks'[t].cb = <<>>
                /\ objs'[t].status = PENDING]_vars

\* C36: execute_cancel with save, discard or force leaves the recorder
\* stopped; when it was recording with a non-empty buffer, stop_recording
\* returns that buffer as the final chunk, and execute_cancel makes no
\* process_chunk call with it: no task is added, no ChunkResult is stored or
\* changed and no submission is refused.
C36_FinalChunkNotSubmitted ==
    [][(/\ ch_last' # ch_last
        /\ ch_last'.op = "execute_cancel"
        /\ ch_last'.choice \in {"save", "discard", "force"}) =>
          /\ ~is_recording'
          /\ (is_recording /\ current_chunk # <<>>) =>
                /\ Len(emitted') = Len(emitted) + 1
                /\ emitted'[Len(emitted')].final
                /\ emitted'[Len(emitted')].data = _combine_chunk_data(current_chunk)
          /\ Len(tasks') = Len(tasks)
          /\ objs' = objs
          /\ chunk_results' = chunk_results
          /\ rejected' = rejected]_vars

\* execute_cancel has stopped a recorder that held audio, and no ChunkResult
\* exists
C36_Witness ==
    /\ ch_last.op = "execute_cancel"
    /\ ch_last.choice \in {"save", "discard", "force"}
    /\ ch_last.wasRecording
    /\ emitted # <<>>
    /\ emitted[Len(emitted)].final
    /\ emitted[Len(emitted)].data # <<>>
    /\ objs = <<>>

\* C37: with no cancellation in progress request_cancel(show_dialog=False)
\* returns 'force' and shows no dialog; execute_cancel('force', ...) signals
\* 'cancelling', stops the recorder when it is recording, signals 'cancelled',
\* and changes nothing of the processor: the cancel flag, the tasks, the
\* audio and the results are as before, so that process_chunk is accepted
\* afterwards when it was before.
C37_ForceLeavesPipeline ==
    [][/\ (/\ ch_last' # ch_last
           /\ ch_last'.op = "request_cancel"
           /\ ~ch_last'.show_dialog
           /\ ~is_cancelling) =>
             /\ ch_last'.choice = "force"
             /\ ~ch_last'.dialog
             /\ is_cancelling'
       /\ (/\ ch_last' # ch_last
           /\ ch_last'.op = "execute_cancel"
           /\ ch_last'.choice = "force") =>
             /\ ch_last'.steps =
                   <<"ui:cancelling">>
                   \o (IF is_recording THEN <<"stop_recording">> ELSE <<>>)
                   \o <<"emit:cancel_completed", "ui:cancelled">>
             /\ ~is_recording'
             /\ UNCHANGED procVars
             /\ process_chunk_accepts(cancel_flag') = process_chunk_accepts(cancel_flag)]_vars

\* a forced cancel has stopped the recorder while a task is inside the ASR
\* call and the cancel flag is not set
C37_Witness ==
    /\ ch_last.op = "execute_cancel"
    /\ ch_last.choice = "force"
    /\ ch_last.wasRecording
    /\ ~is_recording
    /\ ~cancel_flag
    /\ \E t \in 1..Len(tasks) : tasks[t].pc = "asr"

\* C38: a retry_chunk(id) call made while cancel_flag is set and the audio of
\* a known, not yet retried chunk is retained returns no handle and submits
\* no task, and leaves the stored record with retry_count one higher and
\* status pending; a retry_chunk(id) call for an unknown id, an already
\* retried chunk or a chunk whose audio is released changes nothing.
C38_RefusedRetryMarksRecord ==
    [][\A id \in ChunkIds :
          RetryChunk(id) =>
             IF chunk_results[id] = 0
                \/ objs[chunk_results[id]].retry_count >= 1
                \/ id \notin processing_chunks
             THEN UNCHANGED procVars
             ELSE cancel_flag =>
                    /\ tasks' = tasks
                    /\ retryHandles' = retryHandles
                    /\ chunk_results' = chunk_results
                    /\ objs'[chunk_results[id]].retry_count
                          = objs[chunk_results[id]].retry_count + 1
                    /\ objs'[chunk_results[id]].status = PENDING]_vars

\* after a save: the flag is set, the audio of chunk 0 is retained, no retry
\* handle was ever returned, a task is inside the ASR call, and the stored
\* record counts one retry and is pending
C38_Witness ==
    /\ cancel_flag
    /\ ch_last.op = "execute_cancel" /\ ch_last.choice = "save"
    /\ 0 \in processing_chunks
    /\ retryHandles[0] = 0
    /\ Len(tasks) = 1 /\ tasks[1].pc = "asr"
    /\ objs[chunk_results[0]].retry_count = 1
    /\ objs[chunk_results[0]].status = PENDING

\* C39: a should_retry call leaves retry_queue, retry_counts and is_active
\* as they were, and of two should_retry calls with the same chunk id and
\* error text, with no other RetryManager call between them, the second
\* answers as the first.
C39_ShouldRetryReadsOnly ==
    [][(/\ rm_last'.op = "should_retry"
        /\ (rm_last' # rm_last \/ should_run' # should_run)) =>
          /\ UNCHANGED <<retry_queue, retry_counts, is_active>>
          /\ Len(should_run') = 2 => should_run'[1] = should_run'[2]]_vars

\* should_retry has answered true twice in a row for a chunk while another
\* entry waits in the queue
C39_Witness ==
    /\ rm_last.op = "should_retry"
    /\ should_run = <<TRUE, TRUE>>
    /\ retry_counts[rm_last.chunk_id] = 0
    /\ retry_queue # <<>>

====
